---------------------------- MODULE Spec2Model ----------------------------
(***************************************************************************)
(* A model of fontTools.varLib.instancer (Lib/fontTools/varLib/            *)
(* instancer.py): partial instancing of a variable font.                   *)
(*                                                                         *)
(* Numbers.  The program computes with Python floats.  The model computes  *)
(* with exact rationals <<n, d>> (d > 0, lowest terms), so that two values *)
(* are equal exactly when the tuples are equal.                            *)
(***************************************************************************)
EXTENDS Integers, Sequences, FiniteSets, TLC

VARIABLES
    tVar,      \* SpecTent: the TupleVariation handed to limitTupleVariationAxisRange
    tRange,    \* SpecTent: the NormalizedAxisRange
    tOut,      \* SpecTent: the list of TupleVariations returned
    tpc,       \* SpecTent: "call" before the call, "done" after
    sTable,    \* SpecStore: the table that owns the store, "cvar" or "gvar"
    sStore,    \* SpecStore: the list of TupleVariations (cvar.variations, or one glyph's)
    sValues,   \* SpecStore: the cvt values, or the glyph's default coordinates
    sLimits,   \* SpecStore: the normalized limits of the runs still to come
    sReturned, \* SpecStore: the default deltas each call returned so far
    sStore0,   \* SpecStore: the store before the first run
    sValues0,  \* SpecStore: the values before the first run
    sLimits0,  \* SpecStore: the limits of all runs
    vStore,    \* SpecIVS: the item-variation store
    vLimits,   \* SpecIVS: the normalized limits of the call
    vDeltas,   \* SpecIVS: the default deltas returned, keyed by VarIdx
    vStore0,   \* SpecIVS: the store before the call
    vpc,       \* SpecIVS: "call" before the call, "done" after
    fHeap,     \* Spec: the TTFont objects, by object identity
    fCur,      \* Spec: the object the local name varfont refers to
    fArgs,     \* Spec: the arguments of the call: axisLimits, inplace, overlap
    fOptimizer,\* Spec: the encoding VarStore.optimize settles on in this run
    fLimits,   \* Spec: the local axisLimits (user-space)
    fNorm,     \* Spec: the local normalizedLimits
    fNames,    \* Spec: origNameIDs of pruningUnusedNames
    fpc,       \* Spec: the statement the run is at; "done", "raised" at its end
    fErr,      \* Spec: the exception raised, "none" while there is none
    fTrace,    \* Spec: the stage functions called so far, in call order
    fFont0,    \* Spec: the contents of the input font before the call
    pVariations, \* SpecPin: the list handed to pinTupleVariationAxes
    pLocation,   \* SpecPin: the pinned location, axis tag -> coordinate
    pOut,        \* SpecPin: the list returned
    ppc,         \* SpecPin: "call" before the call, "done" after
    gGlyf,       \* SpecGvar: the glyf table
    gGvar,       \* SpecGvar: gvar.variations, glyph name -> list of TupleVariations
    gLocation,   \* SpecGvar: the normalized limits of the call
    gNames,      \* SpecGvar: the local glyphnames, the sorted list
    gProcessed,  \* SpecGvar: the glyphs instantiateGvarGlyph was called for, in call order
    gpc          \* SpecGvar: "sort", "loop", "drop", "done"

tentVars == <<tVar, tRange, tOut, tpc>>
storeVars == <<sTable, sStore, sValues, sLimits, sReturned, sStore0, sValues0, sLimits0>>
ivsVars == <<vStore, vLimits, vDeltas, vStore0, vpc>>
fontVars == <<fHeap, fCur, fArgs, fOptimizer, fLimits, fNorm, fNames, fpc, fErr,
              fTrace, fFont0>>
pinVars == <<pVariations, pLocation, pOut, ppc>>
glyphVars == <<gGlyf, gGvar, gLocation, gNames, gProcessed, gpc>>
vars == <<tentVars, storeVars, ivsVars, fontVars, pinVars, glyphVars>>

-----------------------------------------------------------------------------
(* Exact rational arithmetic.                                              *)

Abs(x) == IF x < 0 THEN -x ELSE x

RECURSIVE GCD(_, _)
GCD(a, b) == IF b = 0 THEN a ELSE GCD(b, a % b)

Sgn(x) == IF x < 0 THEN -1 ELSE IF x > 0 THEN 1 ELSE 0

\* the rational n/d in lowest terms with a positive denominator (d # 0)
Rat(n, d) ==
    LET g == GCD(Abs(n), Abs(d))
    IN  <<Sgn(d) * (n \div g), Abs(d) \div g>>

Num(n) == <<n, 1>>
Zero == Num(0)
One == Num(1)
Two == Num(2)
MinusOne == Num(-1)

RNeg(a) == <<-a[1], a[2]>>

RAdd(a, b) ==
    LET g == GCD(a[2], b[2])
    IN  Rat(a[1] * (b[2] \div g) + b[1] * (a[2] \div g), (a[2] \div g) * b[2])

RSub(a, b) == RAdd(a, RNeg(b))

\* cross-cancel before multiplying, to keep the intermediate products small
RMul(a, b) ==
    LET g1 == GCD(Abs(a[1]), b[2])
        g2 == GCD(Abs(b[1]), a[2])
    IN  IF a[1] = 0 \/ b[1] = 0 THEN Zero
        ELSE <<(a[1] \div g1) * (b[1] \div g2), (a[2] \div g2) * (b[2] \div g1)>>

RInv(a) == <<Sgn(a[1]) * a[2], Abs(a[1])>>

RDiv(a, b) == RMul(a, RInv(b))

RLt(a, b) ==
    LET g == GCD(a[2], b[2])
    IN  a[1] * (b[2] \div g) < b[1] * (a[2] \div g)

RLe(a, b) == a = b \/ RLt(a, b)

RAbs(a) == <<Abs(a[1]), a[2]>>

-----------------------------------------------------------------------------
(* TupleVariation: [axes |-> a function from some axis tags to tents       *)
(* <<lower, peak, upper>>, coordinates |-> the delta payload].             *)

AxisTags == {"wdth", "wght"}

\* the largest value of the 2.14 fixed-point grid, 0x7FFF / 2^14
MAX_F2DOT14 == <<32767, 16384>>

TupleVariation(axes, coordinates) == [axes |-> axes, coordinates |-> coordinates]

NoAxes == [a \in {} |-> <<Zero, Zero, Zero>>]

\* var.axes[axisTag] = tent
SetAxis(var, axisTag, tent) ==
    [var EXCEPT !.axes = [a \in (DOMAIN var.axes) \cup {axisTag} |->
                             IF a = axisTag THEN tent ELSE var.axes[a]]]

\* var.axes.pop(axis) for every axis of the set
PopAxes(var, axes) ==
    [var EXCEPT !.axes = [a \in (DOMAIN var.axes) \ axes |-> var.axes[a]]]

\* a plausible slip: a variation without a tent on the axis is treated as
\* spanning the positive side
GetAxis_MissingIsPositiveTent(var, axisTag) ==
    IF axisTag \in DOMAIN var.axes THEN var.axes[axisTag]
    ELSE <<Zero, One, One>>

\* var.axes.get(axisTag, (-1, 0, 1))
GetAxis(var, axisTag) ==
    IF axisTag \in DOMAIN var.axes THEN var.axes[axisTag]
    ELSE <<MinusOne, Zero, One>>

\* TupleVariation.scaleDeltas: every delta multiplied by the scalar
scaleDeltas(var, scalar) ==
    [var EXCEPT !.coordinates =
        [i \in 1..Len(var.coordinates) |-> RMul(var.coordinates[i], scalar)]]

\* The support of one tent at coordinate v: the triangle that is 0 at and
\* outside lower and upper and 1 at the peak.  A tent with peak 0, out of
\* order, or straddling zero does not participate (support 1).
tentScalar(v, tent) ==
    LET lower == tent[1]
        peak == tent[2]
        upper == tent[3]
    IN  IF peak = Zero THEN One
        ELSE IF RLt(peak, lower) \/ RLt(upper, peak) THEN One
        ELSE IF RLt(lower, Zero) /\ RLt(Zero, upper) THEN One
        ELSE IF v = peak THEN One
        ELSE IF RLe(v, lower) \/ RLe(upper, v) THEN Zero
        ELSE IF RLt(v, peak) THEN RDiv(RSub(v, lower), RSub(peak, lower))
        ELSE RDiv(RSub(v, upper), RSub(peak, upper))

RECURSIVE ProductOver(_, _, _)
ProductOver(axes, location, support) ==
    IF axes = {} THEN One
    ELSE LET a == CHOOSE x \in axes : TRUE
         IN  RMul(tentScalar(location[a], support[a]),
                  ProductOver(axes \ {a}, location, support))

\* supportScalar(location, support): the product of the tents' supports;
\* every axis of the support is an axis of the location here
supportScalar(location, support) ==
    ProductOver(DOMAIN support, location, support)

-----------------------------------------------------------------------------
(* limitTupleVariationAxisRange (instancer.py 224-308).  axisRange is a    *)
(* NormalizedAxisRange [minimum, maximum].  Returns the list of            *)
(* TupleVariations that replace var.                                       *)

NormalizedAxisRange(lo, hi) == [minimum |-> lo, maximum |-> hi]

\* a plausible slip: the deltas are not scaled to the new limit
scalarAtLimit_Unscaled(axisTag, limit, tent) == One

\* supportScalar({axisTag: limit}, {axisTag: (lower, peak, upper)}) (271, 304)
scalarAtLimit(axisTag, limit, tent) ==
    supportScalar([a \in {axisTag} |-> limit], [a \in {axisTag} |-> tent])

limitTupleVariationAxisRange(var, axisTag, axisRange) ==
    LET tent == GetAxis(var, axisTag)
        lower == tent[1]
        peak == tent[2]
        upper == tent[3]
        negative == RLt(lower, Zero)
        limit == IF negative THEN axisRange.minimum ELSE axisRange.maximum
        \* rebased bounds; lower and upper swapped for a negative tent
        newLower == IF negative THEN RDiv(upper, limit) ELSE RDiv(lower, limit)
        newPeak == RDiv(peak, limit)
        newUpper == IF negative THEN RDiv(lower, limit) ELSE RDiv(upper, limit)
        atLimit == scalarAtLimit(axisTag, limit, tent)
    IN  IF \/ peak = Zero
           \/ RLt(peak, lower)
           \/ RLt(upper, peak)
           \/ (RLt(lower, Zero) /\ RLt(Zero, upper))
        THEN <<var>>
        ELSE IF negative /\ axisRange.minimum = MinusOne THEN <<var>>
        ELSE IF negative /\ axisRange.minimum = Zero THEN <<>>
        ELSE IF ~negative /\ axisRange.maximum = One THEN <<var>>
        ELSE IF ~negative /\ axisRange.maximum = Zero THEN <<>>
        \* special case when innermost bound == peak == limit
        ELSE IF newLower = One /\ newPeak = One
        THEN << SetAxis(var, axisTag,
                        IF negative THEN <<MinusOne, MinusOne, MinusOne>>
                        ELSE <<One, One, One>>) >>
        \* case 1: the whole deltaset falls outside the new limit
        ELSE IF RLe(One, newLower) THEN <<>>
        \* case 2: only the peak and outermost bound fall outside the new limit
        ELSE IF RLe(One, newPeak)
        THEN << SetAxis(scaleDeltas(var, atLimit), axisTag,
                        IF negative THEN <<MinusOne, MinusOne, RNeg(newLower)>>
                        ELSE <<newLower, One, One>>) >>
        \* case 3: peak inside, outermost bound fits within F2Dot14 bounds
        ELSE IF RLe(newUpper, Two)
        THEN << SetAxis(var, axisTag,
                        IF negative
                        THEN <<RNeg(newUpper), RNeg(newPeak), RNeg(newLower)>>
                        ELSE IF RLt(MAX_F2DOT14, newUpper)
                        THEN <<newLower, newPeak, MAX_F2DOT14>>
                        ELSE <<newLower, newPeak, newUpper>>) >>
        \* case 4: chop the tent into two triangles
        ELSE LET scalar1 == atLimit
                 scalar2 == RDiv(One, RSub(Two, newPeak))
                 newVar == scaleDeltas(TupleVariation(var.axes, var.coordinates),
                                       RSub(scalar1, scalar2))
             IN  IF negative
                 THEN << SetAxis(var, axisTag,
                                 <<RNeg(Two), RNeg(newPeak), RNeg(newLower)>>),
                         SetAxis(newVar, axisTag,
                                 <<MinusOne, MinusOne, RNeg(newPeak)>>) >>
                 ELSE << SetAxis(var, axisTag,
                                 <<newLower, newPeak, MAX_F2DOT14>>),
                         SetAxis(newVar, axisTag, <<newPeak, One, One>>) >>


-----------------------------------------------------------------------------
(* Axis limits.  A limit is [kind, minimum, maximum]:                      *)
(*   "default"  None, the axis default (user limits only)                  *)
(*   "pin"      a number (minimum = maximum = the coordinate)              *)
(*   "tuple"    a plain (min, max) tuple, not validated (user limits only) *)
(*   "range"    an AxisRange / NormalizedAxisRange instance                *)
(* A limits map is a function from the limited axis tags to limits.        *)

Pin(v) == [kind |-> "pin", minimum |-> v, maximum |-> v]
Range(lo, hi) == [kind |-> "range", minimum |-> lo, maximum |-> hi]
RawTuple(lo, hi) == [kind |-> "tuple", minimum |-> lo, maximum |-> hi]
DefaultSentinel == [kind |-> "default", minimum |-> Zero, maximum |-> Zero]

NoLimits == [a \in {} |-> DefaultSentinel]

\* isinstance(value, tuple): an AxisRange is a (named) tuple too
IsTuple(limit) == limit.kind \in {"tuple", "range"}

\* splitAxisLocationAndRanges (instancer.py 1245-1259): numbers go to the
\* location, range instances and tuples to the ranges; a tuple is turned into
\* a rangeType, which raises ValueError when its minimum exceeds its maximum
\* (AxisRange.__new__, 99-106).  None is neither: TypeError.
splitAxisLocationAndRanges(axisLimits) ==
    LET pinned == { a \in DOMAIN axisLimits : axisLimits[a].kind = "pin" }
        ranged == { a \in DOMAIN axisLimits : IsTuple(axisLimits[a]) }
    IN  [ location |-> [a \in pinned |-> axisLimits[a].minimum],
          axisRanges |-> [a \in ranged |->
              NormalizedAxisRange(axisLimits[a].minimum, axisLimits[a].maximum)],
          error |->
              IF \E a \in DOMAIN axisLimits : axisLimits[a].kind = "default"
              THEN "TypeError"
              ELSE IF \E a \in DOMAIN axisLimits :
                        /\ axisLimits[a].kind = "tuple"
                        /\ RLt(axisLimits[a].maximum, axisLimits[a].minimum)
              THEN "ValueError"
              ELSE "none" ]

-----------------------------------------------------------------------------
(* The tuple-variation store transformation (instancer.py 124-217).        *)

\* a plausible slip: a variation without a tent on a pinned axis gets no support
pinScalar_MissingAxisIsZero(var, location) ==
    IF DOMAIN location \subseteq DOMAIN var.axes
    THEN supportScalar(location, [a \in DOMAIN location |-> var.axes[a]])
    ELSE Zero

\* the scalar pinTupleVariationAxes computes for one variation (200-201)
pinScalar(var, location) ==
    supportScalar(location, [a \in DOMAIN location |-> GetAxis(var, a)])

\* a plausible slip: the variations kept are not scaled
pinTupleVariationAxes_Unscaled(variations, location) ==
    LET kept == SelectSeq(variations, LAMBDA v : pinScalar(v, location) # Zero)
    IN  [i \in 1..Len(kept) |-> PopAxes(kept[i], DOMAIN location)]

\* a plausible slip: the tents of the pinned axes are read but not removed
pinTupleVariationAxes_AxesKept(variations, location) ==
    LET kept == SelectSeq(variations, LAMBDA v : pinScalar(v, location) # Zero)
    IN  [i \in 1..Len(kept) |-> scaleDeltas(kept[i], pinScalar(kept[i], location))]

\* pinTupleVariationAxes (193-208)
pinTupleVariationAxes(variations, location) ==
    LET kept == SelectSeq(variations, LAMBDA v : pinScalar(v, location) # Zero)
    IN  [i \in 1..Len(kept) |->
            scaleDeltas(PopAxes(kept[i], DOMAIN location),
                        pinScalar(kept[i], location))]

RECURSIVE FanOut(_, _, _, _)
\* newVariations.extend(limitTupleVariationAxisRange(var, ...)) for var in variations[i..]
FanOut(variations, i, axisTag, axisRange) ==
    IF i > Len(variations) THEN <<>>
    ELSE limitTupleVariationAxisRange(variations[i], axisTag, axisRange)
         \o FanOut(variations, i + 1, axisTag, axisRange)

\* the axis tags in sorted order
SortedAxisTags == <<"wdth", "wght">>

RECURSIVE LimitFrom(_, _, _)
LimitFrom(variations, axisRanges, k) ==
    IF k > Len(SortedAxisTags) THEN variations
    ELSE IF SortedAxisTags[k] \in DOMAIN axisRanges
    THEN LimitFrom(FanOut(variations, 1, SortedAxisTags[k],
                          axisRanges[SortedAxisTags[k]]),
                   axisRanges, k + 1)
    ELSE LimitFrom(variations, axisRanges, k + 1)

\* a plausible slip: the loop returns after the first limited axis
limitTupleVariationAxisRanges_FirstAxisOnly(variations, axisRanges) ==
    IF SortedAxisTags[1] \in DOMAIN axisRanges
    THEN FanOut(variations, 1, SortedAxisTags[1], axisRanges[SortedAxisTags[1]])
    ELSE LimitFrom(variations, axisRanges, 2)

\* limitTupleVariationAxisRanges (211-217): one axis after the other, sorted by tag
limitTupleVariationAxisRanges(variations, axisRanges) ==
    LimitFrom(variations, axisRanges, 1)

\* TupleVariation.__iadd__: the deltas added item by item
AddDeltas(var, other) ==
    [var EXCEPT !.coordinates =
        [i \in 1..Len(var.coordinates) |->
            RAdd(var.coordinates[i], other.coordinates[i])]]

RECURSIVE MergeFrom(_, _, _)
\* the OrderedDict of 169-180: a variation whose axes are already a key is
\* added to that entry, any other is appended
MergeFrom(merged, newVariations, i) ==
    IF i > Len(newVariations) THEN merged
    ELSE LET var == newVariations[i]
         IN  IF \E j \in 1..Len(merged) : merged[j].axes = var.axes
             THEN LET j == CHOOSE j \in 1..Len(merged) : merged[j].axes = var.axes
                  IN  MergeFrom([merged EXCEPT ![j] = AddDeltas(merged[j], var)],
                                newVariations, i + 1)
             ELSE MergeFrom(Append(merged, var), newVariations, i + 1)

\* a plausible slip: variations with the same tents are not merged
mergeVariations_NotMerged(newVariations) == newVariations

mergeVariations(newVariations) == MergeFrom(<<>>, newVariations, 1)

\* round to the nearest integer, ties to the even one
otRound(r) ==
    LET f == r[1] \div r[2]
        twice == 2 * (r[1] % r[2])
    IN  IF twice < r[2] THEN f
        ELSE IF twice > r[2] THEN f + 1
        ELSE IF f % 2 = 0 THEN f ELSE f + 1

\* TupleVariation.roundDeltas
roundDeltas(var) ==
    [var EXCEPT !.coordinates =
        [i \in 1..Len(var.coordinates) |-> Num(otRound(var.coordinates[i]))]]

\* if pinnedLocation: newVariations = pinTupleVariationAxes(...) (163-164)
pinIfLocation(variations, location) ==
    IF DOMAIN location # {}
    THEN pinTupleVariationAxes(variations, location)
    ELSE variations

\* if axisRanges: newVariations = limitTupleVariationAxisRanges(...) (166-167)
limitIfRanges(variations, axisRanges) ==
    IF DOMAIN axisRanges # {}
    THEN limitTupleVariationAxisRanges(variations, axisRanges)
    ELSE variations

\* 156-166: the limits split into location and ranges; pin, then limit
pinnedAndLimited(variations, split) ==
    limitIfRanges(pinIfLocation(variations, split.location), split.axisRanges)

\* 182-190: the variation without axes is popped and its deltas returned;
\* the deltas of the others are rounded
popDefaultVar(mergedVariations) ==
    [ variations |->
        [i \in 1..Len(SelectSeq(mergedVariations, LAMBDA v : DOMAIN v.axes # {})) |->
            roundDeltas(SelectSeq(mergedVariations, LAMBDA v : DOMAIN v.axes # {})[i])],
      defaultDeltas |->
        IF \E k \in 1..Len(mergedVariations) : DOMAIN mergedVariations[k].axes = {}
        THEN SelectSeq(mergedVariations, LAMBDA v : DOMAIN v.axes = {})[1].coordinates
        ELSE <<>> ]

\* instantiateTupleVariationStore (124-190): the new contents of the list and
\* the default deltas returned
instantiateTupleVariationStore(variations, axisLimits) ==
    popDefaultVar(mergeVariations(
        pinnedAndLimited(variations, splitAxisLocationAndRanges(axisLimits))))

\* setCvarDeltas (376-379)
setCvarDeltas(cvt, deltas) ==
    [i \in 1..Len(cvt) |->
        IF i <= Len(deltas) /\ deltas[i] # Zero
        THEN RAdd(cvt[i], Num(otRound(deltas[i])))
        ELSE cvt[i]]

\* coordinates += GlyphCoordinates(defaultDeltas) (326-327)
addDefaultDeltas(coordinates, defaultDeltas) ==
    IF defaultDeltas # <<>>
    THEN [i \in 1..Len(coordinates) |-> RAdd(coordinates[i], defaultDeltas[i])]
    ELSE coordinates

-----------------------------------------------------------------------------
(* The item-variation store (instancer.py 481-606).  A store is            *)
(* [Region |-> the region list, each region the support it stands for (a   *)
(* function from axis tags to tents), axisOrder |-> the axis tags the      *)
(* region list is written against, VarData |-> the subtables, each         *)
(* [ItemCount, VarRegionIndex (1-based), Item (ItemCount rows of one delta *)
(* per region index)]].                                                    *)

VarData(varRegionIndices, varDataItems) ==
    [ ItemCount |-> Len(varDataItems),
      VarRegionIndex |-> varRegionIndices,
      Item |-> varDataItems ]

Min(a, b) == IF a < b THEN a ELSE b

\* zip(varDataRegions, zip(*varData.Item)) (498-500): one TupleVariation per
\* column of the delta matrix
varDataVariations(regions, varData) ==
    LET columns == IF varData.Item = <<>> THEN 0 ELSE Len(varData.Item[1])
        n == Min(Len(varData.VarRegionIndex), columns)
    IN  [j \in 1..n |->
            TupleVariation(regions[varData.VarRegionIndex[j]],
                           [i \in 1..Len(varData.Item) |-> varData.Item[i][j]])]

\* _TupleVarStoreAdapter.fromItemVarStore (488-503)
fromItemVarStore(itemVarStore, fvarAxes) ==
    [ regions |-> itemVarStore.Region,
      axisOrder |-> fvarAxes,
      tupleVarData |-> [m \in 1..Len(itemVarStore.VarData) |->
          varDataVariations(itemVarStore.Region, itemVarStore.VarData[m])],
      itemCounts |-> [m \in 1..Len(itemVarStore.VarData) |->
          itemVarStore.VarData[m].ItemCount] ]

RECURSIVE Concat(_, _)
\* the lists of seqs[m..] one after the other
Concat(seqs, m) ==
    IF m > Len(seqs) THEN <<>> ELSE seqs[m] \o Concat(seqs, m + 1)

RECURSIVE Unique(_, _, _)
\* OrderedDict.fromkeys: the distinct elements of list[i..], in order of first use
Unique(seen, list, i) ==
    IF i > Len(list) THEN seen
    ELSE IF \E k \in 1..Len(seen) : seen[k] = list[i]
    THEN Unique(seen, list, i + 1)
    ELSE Unique(Append(seen, list[i]), list, i + 1)

InSeq(x, list) == \E k \in 1..Len(list) : list[k] = x

\* a plausible slip: the original regions are all kept, used or not
rebuildRegions_UnusedKept(regions, tupleVarData) ==
    LET allVars == Concat(tupleVarData, 1)
        uniqueRegions == Unique(<<>>, [k \in 1..Len(allVars) |-> allVars[k].axes], 1)
    IN  regions \o SelectSeq(uniqueRegions, LAMBDA r : ~InSeq(r, regions))

\* _TupleVarStoreAdapter.rebuildRegions (505-525): the original regions still
\* in use, in their order, then the new ones in order of first use
rebuildRegions(regions, tupleVarData) ==
    LET allVars == Concat(tupleVarData, 1)
        uniqueRegions == Unique(<<>>, [k \in 1..Len(allVars) |-> allVars[k].axes], 1)
        oldRegions == Unique(<<>>, SelectSeq(regions, LAMBDA r : InSeq(r, uniqueRegions)), 1)
    IN  oldRegions \o SelectSeq(uniqueRegions, LAMBDA r : ~InSeq(r, oldRegions))

\* a plausible slip: a subtable without a residue gets no default deltas
defaultDeltasOrZeros_AsReturned(defaultDeltas, itemCount) == defaultDeltas

\* if not defaultDeltas: defaultDeltas = [0] * itemCount (531-532)
defaultDeltasOrZeros(defaultDeltas, itemCount) ==
    IF defaultDeltas = <<>> THEN [i \in 1..itemCount |-> Zero] ELSE defaultDeltas

\* a plausible slip: the axis order of the store is left as it was
unpinnedAxisOrder_AsBefore(axisOrder, axisLimits) == axisOrder

\* 537-545: the axis order without the pinned axes
unpinnedAxisOrder(axisOrder, axisLimits) ==
    SelectSeq(axisOrder,
              LAMBDA a : ~(a \in DOMAIN axisLimits /\ ~IsTuple(axisLimits[a])))

\* the adapter and the default deltas once every subtable's variations have
\* been instantiated (results[m] is what instantiateTupleVariationStore made
\* of subtable m)
adapterInstantiated(adapter, axisLimits, results) ==
    [ adapter |->
        [ regions |-> rebuildRegions(adapter.regions,
                         [m \in 1..Len(results) |-> results[m].variations]),
          axisOrder |-> unpinnedAxisOrder(adapter.axisOrder, axisLimits),
          tupleVarData |-> [m \in 1..Len(results) |-> results[m].variations],
          itemCounts |-> adapter.itemCounts ],
      defaultDeltaArray |-> [m \in 1..Len(results) |->
          defaultDeltasOrZeros(results[m].defaultDeltas, adapter.itemCounts[m])] ]

\* _TupleVarStoreAdapter.instantiate (527-547): the adapter afterwards and the
\* default deltas of every subtable
adapterInstantiate(adapter, axisLimits) ==
    adapterInstantiated(adapter, axisLimits,
        [m \in 1..Len(adapter.tupleVarData) |->
            instantiateTupleVariationStore(adapter.tupleVarData[m], axisLimits)])

\* regionOrder.index(region): the first position of the region, 1-based
IndexOf(x, list) == CHOOSE k \in 1..Len(list) :
                        list[k] = x /\ \A j \in 1..(k - 1) : list[j] # x

\* a plausible slip: the subtable that lost all its variations is built without rows
emptyVarData_NoRows(itemCount) == VarData(<<>>, <<>>)

\* builder.buildVarData([], [[] for _ in range(itemCount)]) (563-565)
emptyVarData(itemCount) == VarData(<<>>, [i \in 1..itemCount |-> <<>>])

\* _TupleVarStoreAdapter.asItemVarStore (549-570)
asItemVarStore(adapter) ==
    [ Region |-> adapter.regions,
      axisOrder |-> adapter.axisOrder,
      VarData |-> [m \in 1..Len(adapter.tupleVarData) |->
          LET variations == adapter.tupleVarData[m]
          IN  IF variations # <<>>
              THEN VarData(
                     [j \in 1..Len(variations) |->
                         IndexOf(variations[j].axes, adapter.regions)],
                     [i \in 1..Len(variations[1].coordinates) |->
                         [j \in 1..Len(variations) |-> variations[j].coordinates[i]]])
              ELSE emptyVarData(adapter.itemCounts[m])] ]

\* the dict of 601-605, keyed (major << 16) + minor (both counted from 0)
defaultDeltasByVarIdx(defaultDeltaArray) ==
    LET keys == UNION { { (m - 1) * 65536 + (i - 1) :
                            i \in 1..Len(defaultDeltaArray[m]) } :
                        m \in 1..Len(defaultDeltaArray) }
    IN  [ varIdx \in keys |->
            defaultDeltaArray[(varIdx \div 65536) + 1][(varIdx % 65536) + 1] ]

\* 597-606: the new store and the default deltas by VarIdx
storeAndDefaultDeltas(r) ==
    [ store |-> asItemVarStore(r.adapter),
      defaultDeltas |-> defaultDeltasByVarIdx(r.defaultDeltaArray) ]

\* instantiateItemVariationStore (573-606): the store afterwards and the
\* default deltas returned
instantiateItemVariationStore(itemVarStore, fvarAxes, axisLimits) ==
    storeAndDefaultDeltas(
        adapterInstantiate(fromItemVarStore(itemVarStore, fvarAxes), axisLimits))

-----------------------------------------------------------------------------
(* SpecTent: limitTupleVariationAxisRange applied to one TupleVariation    *)
(* with a tent on the limited axis, for every tent and range of the pools. *)

\* the values tents and range ends are drawn from (all on the 2.14 grid)
TentValues ==
    { Rat(k, 8) : k \in {-8, -6, -4, -2, -1, 0, 1, 2, 4, 6, 8} }

Tents ==
    { t \in TentValues \X TentValues \X TentValues :
        RLe(t[1], t[2]) /\ RLe(t[2], t[3]) }

RangeEnds == { Rat(k, 8) : k \in {0, 2, 4, 6, 8} }

NormalizedRanges ==
    { NormalizedAxisRange(RNeg(lo), hi) : lo \in RangeEnds, hi \in RangeEnds }

TentDeltas == { Num(1), Num(6) }

NoVar == TupleVariation(NoAxes, <<>>)
NoRange == NormalizedAxisRange(Zero, Zero)

\* no item-variation store
NoStore == [ Region |-> <<>>, axisOrder |-> <<>>, VarData |-> <<>> ]

TentIdle ==
    /\ tVar = NoVar
    /\ tRange = NoRange
    /\ tOut = <<>>
    /\ tpc = "idle"

StoreIdle ==
    /\ sTable = "none"
    /\ sStore = <<>>
    /\ sValues = <<>>
    /\ sLimits = <<>>
    /\ sReturned = <<>>
    /\ sStore0 = <<>>
    /\ sValues0 = <<>>
    /\ sLimits0 = <<>>

IvsIdle ==
    /\ vStore = NoStore
    /\ vLimits = NoLimits
    /\ vDeltas = <<>>
    /\ vStore0 = NoStore
    /\ vpc = "idle"

FontIdle ==
    /\ fHeap = <<>>
    /\ fCur = 0
    /\ fArgs = <<>>
    /\ fOptimizer = "same"
    /\ fLimits = <<>>
    /\ fNorm = <<>>
    /\ fNames = {}
    /\ fpc = "idle"
    /\ fErr = "none"
    /\ fTrace = <<>>
    /\ fFont0 = <<>>

PinIdle ==
    /\ pVariations = <<>>
    /\ pLocation = <<>>
    /\ pOut = <<>>
    /\ ppc = "idle"

GlyphIdle ==
    /\ gGlyf = <<>>
    /\ gGvar = <<>>
    /\ gLocation = <<>>
    /\ gNames = <<>>
    /\ gProcessed = <<>>
    /\ gpc = "idle"

TentInit ==
    /\ StoreIdle
    /\ IvsIdle
    /\ FontIdle
    /\ PinIdle
    /\ GlyphIdle
    /\ tVar \in { TupleVariation([a \in {"wght"} |-> t], <<d>>) :
                    t \in Tents, d \in TentDeltas }
    /\ tRange \in NormalizedRanges
    /\ tOut = <<>>
    /\ tpc = "call"

LimitAxisRange ==
    /\ tpc = "call"
    /\ tOut' = limitTupleVariationAxisRange(tVar, "wght", tRange)
    /\ tpc' = "done"
    /\ UNCHANGED <<tVar, tRange, storeVars, ivsVars, fontVars, pinVars, glyphVars>>

TentNext == LimitAxisRange

SpecTent == TentInit /\ [][TentNext]_vars

-----------------------------------------------------------------------------
(* C1: range-limiting preserves interpolation.                             *)

\* the coordinates the tents are evaluated at
SampleCoords == { Rat(k, 16) : k \in -16..16 }

InRange(c, axisRange) == RLe(axisRange.minimum, c) /\ RLe(c, axisRange.maximum)

\* c rebased to the new range: c/hi for c > 0, c/|lo| for c < 0
Rebased(c, axisRange) ==
    IF RLt(Zero, c) THEN RDiv(c, axisRange.maximum)
    ELSE IF RLt(c, Zero) THEN RDiv(c, RAbs(axisRange.minimum))
    ELSE Zero

OneSided(tent) ==
    /\ RLe(tent[1], tent[2])
    /\ RLe(tent[2], tent[3])
    /\ (RLe(Zero, tent[1]) \/ RLe(tent[3], Zero))

RECURSIVE SumOfSupports(_, _, _, _)
\* sum over out[i..] of (delta scale factor) x (support of the new tent at x)
SumOfSupports(out, i, x, d) ==
    IF i > Len(out) THEN Zero
    ELSE RAdd(RMul(RDiv(out[i].coordinates[1], d),
                   tentScalar(x, GetAxis(out[i], "wght"))),
              SumOfSupports(out, i + 1, x, d))

InterpolationError(c) ==
    RAbs(RSub(SumOfSupports(tOut, 1, Rebased(c, tRange), tVar.coordinates[1]),
              tentScalar(c, tVar.axes["wght"])))

\* the rebased upper bound of a positive-side tent exceeds the largest 2.14 value
UpperClamped ==
    /\ RLt(Zero, tVar.axes["wght"][2])
    /\ RLe(Zero, tVar.axes["wght"][1])
    /\ RLt(Zero, tRange.maximum)
    /\ RLt(tRange.maximum, One)
    /\ RLt(tVar.axes["wght"][2], tRange.maximum)
    /\ RLt(MAX_F2DOT14, RDiv(tVar.axes["wght"][3], tRange.maximum))

F2Dot14Step == <<1, 16384>>

-----------------------------------------------------------------------------
(* SpecStore: a tuple-variation store of cvar, or of one gvar glyph, put   *)
(* through instantiateCvar / instantiateGvarGlyph once per limits map of   *)
(* sLimits: one run, or two runs over disjoint axis sets.                  *)

MaxVariations == 2
NumItems == 2

\* the tents of the pool's variations
PoolAxes ==
    << [a \in {"wght"} |-> <<Zero, One, One>>],
       [a \in {"wght"} |-> <<Zero, Rat(1, 2), One>>],
       [a \in {"wdth"} |-> <<MinusOne, MinusOne, Zero>>],
       [a \in {"wdth", "wght"} |-> <<Zero, One, One>>],
       [a \in {"wdth"} |-> <<Zero, Rat(1, 8), One>>],
       [a \in {"wdth", "wght"} |->
           IF a = "wght" THEN <<Rat(1, 2), One, One>>
           ELSE <<MinusOne, MinusOne, Zero>>] >>

\* the integer deltas of pool variation k
PoolDeltas(k) == [i \in 1..NumItems |-> Num(((2 * k + 3 * i) % 11) - 5)]

VarPool == { TupleVariation(PoolAxes[k], PoolDeltas(k)) : k \in 1..Len(PoolAxes) }

RECURSIVE SeqsUpTo(_, _)
SeqsUpTo(S, n) ==
    IF n = 0 THEN { <<>> }
    ELSE LET shorter == SeqsUpTo(S, n - 1)
         IN  shorter \cup { Append(q, x) : q \in shorter, x \in S }

Stores == SeqsUpTo(VarPool, MaxVariations)

WghtLimits == { Pin(Zero), Pin(Rat(1, 2)), Range(Zero, Rat(1, 2)),
                Range(Rat(-1, 2), Rat(3, 4)) }
WdthLimits == { Pin(Rat(-1, 2)), Pin(Rat(1, 4)), Range(Rat(-1, 2), Rat(1, 4)),
                Range(Zero, One) }

LimitMaps ==
    { NoLimits }
    \cup { [a \in {"wght"} |-> l] : l \in WghtLimits }
    \cup { [a \in {"wdth"} |-> l] : l \in WdthLimits }
    \cup { [a \in {"wdth", "wght"} |-> IF a = "wght" THEN lw ELSE ld] :
             lw \in WghtLimits, ld \in WdthLimits }

\* one run, or two runs over disjoint axis sets
LimitRuns ==
    { <<la>> : la \in LimitMaps }
    \cup { <<la, lb>> : la \in LimitMaps \ {NoLimits}, lb \in LimitMaps \ {NoLimits} }

DisjointRuns == { r \in LimitRuns : Len(r) = 2 => DOMAIN r[1] \cap DOMAIN r[2] = {} }

DefaultValues == [i \in 1..NumItems |-> Num(100 * i)]

StoreInit ==
    /\ TentIdle
    /\ IvsIdle
    /\ FontIdle
    /\ PinIdle
    /\ GlyphIdle
    /\ sTable \in {"cvar", "gvar"}
    /\ sStore \in Stores
    /\ sValues = DefaultValues
    /\ sLimits \in DisjointRuns
    /\ sReturned = <<>>
    /\ sStore0 = sStore
    /\ sValues0 = sValues
    /\ sLimits0 = sLimits

\* instantiateCvar (382-393) with the next limits map
InstantiateCvar ==
    /\ sTable = "cvar"
    /\ sLimits # <<>>
    /\ LET r == instantiateTupleVariationStore(sStore, Head(sLimits))
       IN  /\ sStore' = r.variations
           /\ sValues' = IF r.defaultDeltas # <<>>
                         THEN setCvarDeltas(sValues, r.defaultDeltas)
                         ELSE sValues
           /\ sReturned' = Append(sReturned, r.defaultDeltas)
    /\ sLimits' = Tail(sLimits)
    /\ UNCHANGED <<sTable, sStore0, sValues0, sLimits0, tentVars, ivsVars, fontVars, pinVars, glyphVars>>

\* instantiateGvarGlyph (311-348) with the next limits map; a glyph without
\* variations keeps its coordinates
InstantiateGvarGlyph ==
    /\ sTable = "gvar"
    /\ sLimits # <<>>
    /\ IF sStore # <<>>
       THEN LET r == instantiateTupleVariationStore(sStore, Head(sLimits))
            IN  /\ sStore' = r.variations
                /\ sValues' = addDefaultDeltas(sValues, r.defaultDeltas)
                /\ sReturned' = Append(sReturned, r.defaultDeltas)
       ELSE /\ sReturned' = Append(sReturned, <<>>)
            /\ UNCHANGED <<sStore, sValues>>
    /\ sLimits' = Tail(sLimits)
    /\ UNCHANGED <<sTable, sStore0, sValues0, sLimits0, tentVars, ivsVars, fontVars, pinVars, glyphVars>>

StoreNext == InstantiateCvar \/ InstantiateGvarGlyph

SpecStore == StoreInit /\ [][StoreNext]_vars


-----------------------------------------------------------------------------
(* C2: full-instance equivalence at the store level.                       *)

\* the axes some variation of the store mentions
MentionedAxes(variations) ==
    UNION { DOMAIN variations[i].axes : i \in 1..Len(variations) }

PinnedAxes(axisLimits) ==
    { a \in DOMAIN axisLimits : axisLimits[a].kind = "pin" }

\* the first run pinned every axis the original store mentions, and is over
FullyPinnedRun ==
    /\ sTable # "none"
    /\ Len(sReturned) = 1
    /\ MentionedAxes(sStore0) \subseteq PinnedAxes(sLimits0[1])

RECURSIVE ScalarAt(_, _, _)
\* the product of the per-axis supports of the tents of var at the pinned coordinates
ScalarAt(var, axes, axisLimits) ==
    IF axes = {} THEN One
    ELSE LET a == CHOOSE x \in axes : TRUE
         IN  RMul(tentScalar(axisLimits[a].minimum, var.axes[a]),
                  ScalarAt(var, axes \ {a}, axisLimits))

RECURSIVE InterpolatedDelta(_, _, _, _)
\* sum over variations[k..] of (support scalar at the pinned location) x delta of item i
InterpolatedDelta(variations, k, axisLimits, i) ==
    IF k > Len(variations) THEN Zero
    ELSE RAdd(RMul(ScalarAt(variations[k], DOMAIN variations[k].axes, axisLimits),
                   variations[k].coordinates[i]),
              InterpolatedDelta(variations, k + 1, axisLimits, i))

\* item i of a returned list of default deltas; the empty list stands for no deltas
ResidueItem(defaultDeltas, i) ==
    IF defaultDeltas = <<>> THEN Zero ELSE defaultDeltas[i]

\* C2 as stated: when the limits pin every axis the store mentions, the store
\* is left empty, the returned default deltas equal item by item the sum of
\* (support scalar at the location) x delta over the original variations, and
\* the caller (instantiateGvarGlyph, instantiateCvar) adds exactly this
\* residue to the default coordinates / control values.
C2_ExactResidueAdded ==
    FullyPinnedRun =>
        /\ sStore = <<>>
        /\ \A i \in 1..NumItems :
              LET d == InterpolatedDelta(sStore0, 1, sLimits0[1], i)
              IN  /\ ResidueItem(sReturned[1], i) = d
                  /\ sValues[i] = RAdd(sValues0[i], d)

\* C2 amended: as above, but instantiateCvar adds the residue to the control
\* values rounded to an integer (instantiateGvarGlyph adds it as it is).
C2_ResidueAddedRoundedForCvt ==
    FullyPinnedRun =>
        /\ sStore = <<>>
        /\ \A i \in 1..NumItems :
              LET d == InterpolatedDelta(sStore0, 1, sLimits0[1], i)
              IN  /\ ResidueItem(sReturned[1], i) = d
                  /\ sTable = "gvar" => sValues[i] = RAdd(sValues0[i], d)
                  /\ sTable = "cvar" => sValues[i] = RAdd(sValues0[i], Num(otRound(d)))

\* C2 witness: a fully pinned run of a two-variation store with a residue
\* that has a non-integer item
C2_Witness ==
    /\ FullyPinnedRun
    /\ Len(sStore0) = 2
    /\ sReturned[1] # <<>>
    /\ \E i \in 1..NumItems : sReturned[1][i][2] # 1

-----------------------------------------------------------------------------
(* C3: partial composability.                                              *)

\* both runs of a two-run sequence are over
TwoRunsDone == sTable # "none" /\ Len(sLimits0) = 2 /\ sLimits = <<>>

\* the store instantiated once with the union of the two limits maps
CombinedRun == instantiateTupleVariationStore(sStore0, sLimits0[1] @@ sLimits0[2])

SameAxisMaps(a, b) ==
    /\ Len(a) = Len(b)
    /\ \A k \in 1..Len(a) : a[k].axes = b[k].axes

TotalReturned(i) ==
    RAdd(ResidueItem(sReturned[1], i), ResidueItem(sReturned[2], i))

\* C3: two runs over disjoint axis sets leave the same variations as one run
\* with the union of the limits: the same axis maps in the same order, every
\* delta within one unit per variation of the original store (the rounding of
\* the intermediate deltas), and the same total default deltas within half a
\* unit per variation.
C3_PartialComposability ==
    TwoRunsDone =>
        /\ SameAxisMaps(sStore, CombinedRun.variations)
        /\ \A k \in 1..Len(sStore) : \A i \in 1..NumItems :
              RLe(RAbs(RSub(sStore[k].coordinates[i],
                            CombinedRun.variations[k].coordinates[i])),
                  Num(Len(sStore0)))
        /\ \A i \in 1..NumItems :
              RLe(RAbs(RSub(TotalReturned(i),
                            ResidueItem(CombinedRun.defaultDeltas, i))),
                  Rat(Len(sStore0), 2))

\* C3 witness: a pin run followed by a range run, with a variation surviving
\* both whose deltas differ from those of the single run by the rounding of
\* the intermediate deltas
C3_Witness ==
    /\ TwoRunsDone
    /\ PinnedAxes(sLimits0[1]) # {}
    /\ DOMAIN sLimits0[2] \ PinnedAxes(sLimits0[2]) # {}
    /\ SameAxisMaps(sStore, CombinedRun.variations)
    /\ \E k \in 1..Len(sStore) :
          sStore[k].coordinates # CombinedRun.variations[k].coordinates

-----------------------------------------------------------------------------
(* C11: pinning and the variations that have no tent on the pinned axis.   *)

\* the first run is over and its limits pin one axis and nothing else
OneAxisPinned ==
    /\ sTable # "none"
    /\ Len(sReturned) = 1
    /\ Cardinality(DOMAIN sLimits0[1]) = 1
    /\ PinnedAxes(sLimits0[1]) = DOMAIN sLimits0[1]

\* the variations of the original store that have no tent on a pinned axis
NonParticipating ==
    { i \in 1..Len(sStore0) : DOMAIN sStore0[i].axes \cap DOMAIN sLimits0[1] = {} }

\* the variations of the original store that pinning leaves with the tents
\* of variation i, and with some influence at the pinned coordinate
LeftWithTentsOf(i) ==
    { j \in 1..Len(sStore0) :
        /\ PopAxes(sStore0[j], DOMAIN sLimits0[1]).axes = sStore0[i].axes
        /\ ScalarAt(sStore0[j], DOMAIN sStore0[j].axes \cap DOMAIN sLimits0[1],
                    sLimits0[1]) # Zero }

RECURSIVE ScaledSum(_, _)
\* item x of the payloads of the variations js, each scaled by its support
ScaledSum(js, x) ==
    IF js = {} THEN Zero
    ELSE LET j == CHOOSE k \in js : TRUE
         IN  RAdd(RMul(ScalarAt(sStore0[j],
                                DOMAIN sStore0[j].axes \cap DOMAIN sLimits0[1],
                                sLimits0[1]),
                       sStore0[j].coordinates[x]),
                  ScaledSum(js \ {j}, x))

-----------------------------------------------------------------------------
(* SpecIVS: instantiateItemVariationStore applied once to an item-variation *)
(* store of up to MaxVarData subtables over the region list PoolAxes.       *)

MaxVarData == 2

\* the region indices (1-based) a subtable of the pool refers to
IvsRegionIndices == { <<>>, <<1, 2>>, <<3, 1>>, <<2, 4>>, <<4, 6, 1>> }

\* the delta-set rows of a pool subtable
IvsItems(varRegionIndices, itemCount) ==
    [i \in 1..itemCount |->
        [j \in 1..Len(varRegionIndices) |->
            Num(((5 * varRegionIndices[j] + 3 * i) % 9) - 4)]]

IvsVarDatas ==
    { VarData(idx, IvsItems(idx, n)) : idx \in IvsRegionIndices, n \in {0, NumItems} }

IvsStores ==
    { [ Region |-> PoolAxes, axisOrder |-> order, VarData |-> vd ] :
        order \in { <<"wght", "wdth">>, <<"wdth", "wght">> },
        vd \in SeqsUpTo(IvsVarDatas, MaxVarData) }

IvsInit ==
    /\ TentIdle
    /\ StoreIdle
    /\ FontIdle
    /\ PinIdle
    /\ GlyphIdle
    /\ vStore \in IvsStores
    /\ vLimits = NoLimits
    /\ vDeltas = <<>>
    /\ vStore0 = vStore
    /\ vpc = "call"

\* instantiateItemVariationStore (573-606); the fvar axes are the axes the
\* store's region list is written against
InstantiateItemVariationStore ==
    /\ vpc = "call"
    /\ \E axisLimits \in LimitMaps :
          \E r \in { instantiateItemVariationStore(vStore, vStore.axisOrder, axisLimits) } :
              /\ vStore' = r.store
              /\ vDeltas' = r.defaultDeltas
              /\ vLimits' = axisLimits
    /\ vpc' = "done"
    /\ UNCHANGED <<vStore0, tentVars, storeVars, fontVars, pinVars, glyphVars>>

IvsNext == InstantiateItemVariationStore

SpecIVS == IvsInit /\ [][IvsNext]_vars

-----------------------------------------------------------------------------
(* C6: the item-variation store keeps its shape.                           *)

\* C6: after instantiateItemVariationStore the store has as many VarData
\* subtables as before, and each subtable has the ItemCount (and that many
\* delta-set rows) it had before, also when all its regions were dropped.
C6_ShapePreserved ==
    vpc = "done" =>
        /\ Len(vStore.VarData) = Len(vStore0.VarData)
        /\ \A m \in 1..Len(vStore0.VarData) :
              /\ vStore.VarData[m].ItemCount = vStore0.VarData[m].ItemCount
              /\ Len(vStore.VarData[m].Item) = vStore0.VarData[m].ItemCount

\* C6 witness: a two-subtable store, one subtable of which had items and
\* regions and lost every region, another of which kept some
C6_Witness ==
    /\ vpc = "done"
    /\ Len(vStore0.VarData) = 2
    /\ \E m, n \in 1..2 :
          /\ vStore0.VarData[m].ItemCount = NumItems
          /\ vStore0.VarData[m].VarRegionIndex # <<>>
          /\ vStore.VarData[m].VarRegionIndex = <<>>
          /\ vStore.VarData[n].VarRegionIndex # <<>>

-----------------------------------------------------------------------------
(* C7: the default-delta map is total.                                     *)

\* the VarIdx keys of a store: (major << 16) + minor for every row
VarIdxKeys(store) ==
    UNION { { (m - 1) * 65536 + (i - 1) : i \in 1..store.VarData[m].ItemCount } :
            m \in 1..Len(store.VarData) }

RECURSIVE PinnedResidue(_, _, _, _, _)
\* sum over the columns j.. of a subtable whose region has every axis pinned
\* of (support scalar at the pinned coordinates) x delta of row i
PinnedResidue(store, varData, j, axisLimits, i) ==
    IF j > Len(varData.VarRegionIndex) THEN Zero
    ELSE LET var == TupleVariation(store.Region[varData.VarRegionIndex[j]], <<>>)
             term == IF DOMAIN var.axes \subseteq PinnedAxes(axisLimits)
                     THEN RMul(ScalarAt(var, DOMAIN var.axes, axisLimits),
                               varData.Item[i][j])
                     ELSE Zero
         IN  RAdd(term, PinnedResidue(store, varData, j + 1, axisLimits, i))

\* C7: the map returned by instantiateItemVariationStore has exactly one
\* entry per (subtable, row) of the original store, keyed (major << 16) +
\* minor; the entry is the residue of the fully pinned variations of that
\* subtable for that row, and 0 for every row of a subtable without residue.
C7_DefaultDeltasTotal ==
    vpc = "done" =>
        /\ DOMAIN vDeltas = VarIdxKeys(vStore0)
        /\ \A m \in 1..Len(vStore0.VarData) :
              \A i \in 1..vStore0.VarData[m].ItemCount :
                 vDeltas[(m - 1) * 65536 + (i - 1)] =
                    PinnedResidue(vStore0, vStore0.VarData[m], 1, vLimits, i)

\* C7 witness: a two-subtable store with items, one subtable with a nonzero
\* residue and one that still has regions and whose rows all map to 0
C7_Witness ==
    /\ vpc = "done"
    /\ Len(vStore0.VarData) = 2
    /\ \A m \in 1..2 : vStore0.VarData[m].ItemCount = NumItems
    /\ \E m, n \in 1..2 :
          /\ vDeltas[(m - 1) * 65536] # Zero
          /\ \A i \in 1..NumItems : vDeltas[(n - 1) * 65536 + (i - 1)] = Zero
          /\ vStore.VarData[n].VarRegionIndex # <<>>

-----------------------------------------------------------------------------
(* The font (a TTFont): a function from the tags of the tables it has to   *)
(* the tables.  "tag in varfont" is tag \in DOMAIN font.                    *)

\* del varfont[tag]
DelTable(font, tag) == [t \in (DOMAIN font) \ {tag} |-> font[t]]

\* varfont[tag] = table
SetTable(font, tag, table) ==
    [t \in (DOMAIN font) \cup {tag} |-> IF t = tag THEN table ELSE font[t]]

\* [axis.axisTag for axis in fvar.axes]
axisTagsOf(axes) == [k \in 1..Len(axes) |-> axes[k].axisTag]

\* the axis of fvar.axes with the tag
axisByTag(axes, axisTag) ==
    axes[CHOOSE k \in 1..Len(axes) : axes[k].axisTag = axisTag]

\* an outcome of an operation that may raise: the error raised, or "none"
\* and the value returned
Raised(error) == [error |-> error, value |-> <<>>, written |-> FALSE]
Returned(value) == [error |-> "none", value |-> value, written |-> TRUE]

\* an error raised after the operation has written to its object: value is
\* the object as the operation leaves it
RaisedAfter(error, value) == [error |-> error, value |-> value, written |-> TRUE]

\* sanityCheckVariableTables (1137-1145): the error raised, or "none"
sanityCheckVariableTables(varfont) ==
    IF "fvar" \notin DOMAIN varfont THEN "ValueError"
    ELSE IF "gvar" \in DOMAIN varfont /\ "glyf" \notin DOMAIN varfont THEN "ValueError"
    ELSE IF "CFF2" \in DOMAIN varfont THEN "NotImplementedError"
    ELSE "none"

\* a plausible slip: None resolved to the axis minimum
defaultOfAxis_Minimum(axis) == Pin(axis.minValue)

\* defaultValues[axisTag] (1151-1153): the default of the axis as a coordinate
defaultOfAxis(axis) == Pin(axis.defaultValue)

\* populateAxisDefaults (1148-1156); None for a tag that fvar does not have
\* is a KeyError
populateAxisDefaults(varfont, axisLimits) ==
    IF \E a \in DOMAIN axisLimits : axisLimits[a].kind = "default"
    THEN IF \E a \in DOMAIN axisLimits :
              /\ axisLimits[a].kind = "default"
              /\ ~InSeq(a, axisTagsOf(varfont["fvar"].axes))
         THEN Raised("KeyError")
         ELSE Returned([a \in DOMAIN axisLimits |->
                  IF axisLimits[a].kind = "default"
                  THEN defaultOfAxis(axisByTag(varfont["fvar"].axes, a))
                  ELSE axisLimits[a]])
    ELSE Returned(axisLimits)

\* v = max(min(v, upper), lower)
clampToAxis(v, axis) ==
    IF RLt(axis.maxValue, v) THEN axis.maxValue
    ELSE IF RLt(v, axis.minValue) THEN axis.minValue
    ELSE v

\* a clamped value on the scale -1 .. 0 .. +1 of the axis
normalizeClamped(v, axis) ==
    IF v = axis.defaultValue THEN Zero
    ELSE IF RLt(v, axis.defaultValue)
    THEN RDiv(RSub(v, axis.defaultValue), RSub(axis.defaultValue, axis.minValue))
    ELSE RDiv(RSub(v, axis.defaultValue), RSub(axis.maxValue, axis.defaultValue))

\* fontTools.varLib.models.normalizeValue
normalizeValue(v, axis) == normalizeClamped(clampToAxis(v, axis), axis)

\* the greatest key below v / the least key above v of a segment map
KeyBelow(v, mapping) ==
    CHOOSE p \in mapping : RLt(p[1], v) /\ \A q \in mapping : RLt(q[1], v) => RLe(q[1], p[1])
KeyAbove(v, mapping) ==
    CHOOSE p \in mapping : RLt(v, p[1]) /\ \A q \in mapping : RLt(v, q[1]) => RLe(p[1], q[1])

\* the two neighbours of v interpolated
interpolateBetween(v, a, b) ==
    RAdd(a[2], RDiv(RMul(RSub(b[2], a[2]), RSub(v, a[1])), RSub(b[1], a[1])))

\* fontTools.varLib.models.piecewiseLinearMap; a mapping is the set of its
\* <<from, to>> pairs
piecewiseLinearMap(v, mapping) ==
    IF mapping = {} THEN v
    ELSE IF \E p \in mapping : p[1] = v THEN (CHOOSE p \in mapping : p[1] = v)[2]
    ELSE IF \A p \in mapping : RLt(v, p[1])
    THEN RAdd(v, RSub(KeyAbove(v, mapping)[2], KeyAbove(v, mapping)[1]))
    ELSE IF \A p \in mapping : RLt(p[1], v)
    THEN RAdd(v, RSub(KeyBelow(v, mapping)[2], KeyBelow(v, mapping)[1]))
    ELSE interpolateBetween(v, KeyBelow(v, mapping), KeyAbove(v, mapping))

\* floatToFixedToFloat(value, 14): the nearest multiple of 1/16384
floatToFixedToFloat14(value) == Rat(otRound(RMul(value, Num(16384))), 16384)

\* normalize (1101-1106)
normalize(value, axis, avarMapping) ==
    floatToFixedToFloat14(piecewiseLinearMap(normalizeValue(value, axis), avarMapping))

\* the avar mapping normalizeAxisLimits uses for the axis (1122-1127)
avarMappingFor(varfont, axisTag, usingAvar) ==
    IF usingAvar /\ "avar" \in DOMAIN varfont
    THEN IF axisTag \in DOMAIN varfont["avar"].segments
         THEN varfont["avar"].segments[axisTag]
         ELSE {}
    ELSE {}

\* AxisRange.__new__ and NormalizedAxisRange.__new__ (99-121) accept the pair
validNormalizedAxisRange(lo, hi) ==
    /\ RLe(lo, hi)
    /\ RLe(MinusOne, lo) /\ RLe(hi, One)
    /\ RLe(lo, Zero)
    /\ RLe(Zero, hi)

\* one limit normalized (1128-1133): a range of the normalized ends, or the
\* normalized coordinate
normalizedLimit(limit, axis, avarMapping) ==
    IF IsTuple(limit)
    THEN Range(normalize(limit.minimum, axis, avarMapping),
               normalize(limit.maximum, axis, avarMapping))
    ELSE Pin(normalize(limit.minimum, axis, avarMapping))

\* every normalized range is one NormalizedAxisRange accepts
allRangesValid(normalizedLimits) ==
    \A a \in DOMAIN normalizedLimits :
        IsTuple(normalizedLimits[a]) =>
            validNormalizedAxisRange(normalizedLimits[a].minimum,
                                     normalizedLimits[a].maximum)

\* the normalized limits, or the ValueError of NormalizedAxisRange
checkedNormalizedLimits(normalizedLimits) ==
    IF allRangesValid(normalizedLimits)
    THEN Returned(normalizedLimits)
    ELSE Raised("ValueError")

\* normalizeAxisLimits (1109-1134)
normalizeAxisLimits(varfont, axisLimits, usingAvar) ==
    IF \E a \in DOMAIN axisLimits : ~InSeq(a, axisTagsOf(varfont["fvar"].axes))
    THEN Raised("ValueError")
    ELSE checkedNormalizedLimits(
           [a \in DOMAIN axisLimits |->
               normalizedLimit(axisLimits[a], axisByTag(varfont["fvar"].axes, a),
                               avarMappingFor(varfont, a, usingAvar))])

-----------------------------------------------------------------------------
(* The stages on tuple-variation stores: gvar and cvar (311-393).          *)
(* font["glyf"] is [coordinates |-> glyph name -> default coordinates,     *)
(* overlap |-> the overlap flags are set]; font["gvar"] is [variations |-> *)
(* glyph name -> list of TupleVariations]; font["cvt "] is the list of     *)
(* control values and font["cvar"] is [variations |-> the list].           *)

NoResult == [variations |-> <<>>, defaultDeltas |-> <<>>]

\* instantiateGvarGlyph (311-331): what instantiateTupleVariationStore makes
\* of the glyph's variations; nothing for a glyph without variations
glyphResult(variations, glyphname, location) ==
    IF glyphname \in DOMAIN variations
    THEN IF variations[glyphname] # <<>>
         THEN instantiateTupleVariationStore(variations[glyphname], location)
         ELSE NoResult
    ELSE NoResult

\* 326-331, 340-343: the default deltas added to the coordinates, and the
\* entries of gvar.variations that are now empty deleted
glyphsWritten(varfont, results) ==
    [t \in DOMAIN varfont |->
        IF t = "glyf"
        THEN [varfont["glyf"] EXCEPT !.coordinates =
                [g \in DOMAIN varfont["glyf"].coordinates |->
                    addDefaultDeltas(varfont["glyf"].coordinates[g],
                                     results[g].defaultDeltas)]]
        ELSE IF t = "gvar"
        THEN [variations |->
                [g \in { h \in DOMAIN varfont["gvar"].variations :
                           h \in DOMAIN results => results[h].variations # <<>> } |->
                    IF g \in DOMAIN results
                    THEN results[g].variations
                    ELSE varfont["gvar"].variations[g]]]
        ELSE varfont[t]]

\* if not gvar.variations: del varfont["gvar"] (372-373)
dropGvarIfEmpty(varfont) ==
    IF DOMAIN varfont["gvar"].variations = {}
    THEN DelTable(varfont, "gvar")
    ELSE varfont

\* instantiateGvar (351-373)
instantiateGvar(varfont, location) ==
    dropGvarIfEmpty(glyphsWritten(varfont,
        [g \in DOMAIN varfont["glyf"].coordinates |->
            glyphResult(varfont["gvar"].variations, g, location)]))

\* 389-393: the default deltas added to cvt, cvar deleted when it is empty
cvarWritten(varfont, result) ==
    [t \in (DOMAIN varfont) \ (IF result.variations = <<>> THEN {"cvar"} ELSE {}) |->
        IF t = "cvt " /\ result.defaultDeltas # <<>>
        THEN setCvarDeltas(varfont["cvt "], result.defaultDeltas)
        ELSE IF t = "cvar"
        THEN [variations |-> result.variations]
        ELSE varfont[t]]

\* instantiateCvar (382-393)
instantiateCvar(varfont, location) ==
    cvarWritten(varfont,
        instantiateTupleVariationStore(varfont["cvar"].variations, location))

-----------------------------------------------------------------------------
(* The stages on item-variation stores: MVAR, HVAR, VVAR, GDEF/GPOS        *)
(* (396-470, 609-665).                                                     *)

\* VarStore.optimize() is asked to re-encode the store and returns the
\* VarIdx mapping: the rows may stay ("same") or move within their subtable
\* ("reversed")
OptimizerChoices == {"same", "reversed"}

\* the store as the optimizer leaves it
optimizedStore(store, choice) ==
    IF choice = "same" THEN store
    ELSE [store EXCEPT !.VarData =
            [m \in 1..Len(store.VarData) |->
                [store.VarData[m] EXCEPT !.Item =
                    [i \in 1..Len(store.VarData[m].Item) |->
                        store.VarData[m].Item[Len(store.VarData[m].Item) + 1 - i]]]]]

\* varIndexMapping[varIdx]
varIndexMapping(store, choice, varIdx) ==
    IF choice = "same" THEN varIdx
    ELSE (varIdx \div 65536) * 65536
         + (store.VarData[(varIdx \div 65536) + 1].ItemCount - 1 - (varIdx % 65536))

\* MVAR_ENTRIES: the value tags that name a field; the fields are those of
\* font["OS/2"]
MVAR_ENTRIES == [xhgt |-> "sxHeight", cpht |-> "sCapHeight"]

RECURSIVE setMvarDeltasFrom(_, _, _, _)
\* setMvarDeltas (396-410) for the records k.. : the OS/2 table afterwards
setMvarDeltasFrom(os2, records, deltas, k) ==
    IF k > Len(records) THEN os2
    ELSE IF records[k].ValueTag \notin DOMAIN MVAR_ENTRIES
    THEN setMvarDeltasFrom(os2, records, deltas, k + 1)
    ELSE IF deltas[records[k].VarIdx] = Zero
    THEN setMvarDeltasFrom(os2, records, deltas, k + 1)
    ELSE setMvarDeltasFrom(
            [os2 EXCEPT ![MVAR_ENTRIES[records[k].ValueTag]] =
                @ + otRound(deltas[records[k].VarIdx])],
            records, deltas, k + 1)

\* 419-427: the deltas set, then the store optimized and the records
\* remapped, or MVAR deleted when no region is left
mvarWritten(varfont, r, choice) ==
    [t \in (DOMAIN varfont) \ (IF r.store.Region = <<>> THEN {"MVAR"} ELSE {}) |->
        IF t = "OS/2"
        THEN setMvarDeltasFrom(varfont["OS/2"], varfont["MVAR"].ValueRecord,
                               r.defaultDeltas, 1)
        ELSE IF t = "MVAR"
        THEN [ VarStore |-> optimizedStore(r.store, choice),
               ValueRecord |->
                 [k \in 1..Len(varfont["MVAR"].ValueRecord) |->
                    [varfont["MVAR"].ValueRecord[k] EXCEPT !.VarIdx =
                        varIndexMapping(r.store, choice, @)]] ]
        ELSE varfont[t]]

\* instantiateMVAR (413-427)
instantiateMVAR(varfont, location, choice) ==
    mvarWritten(varfont,
        instantiateItemVariationStore(varfont["MVAR"].VarStore,
            axisTagsOf(varfont["fvar"].axes), location),
        choice)

\* varLib.HVAR_FIELDS, varLib.VVAR_FIELDS
HVAR_FIELDS == [ tableTag |-> "HVAR", advMapping |-> "AdvWidthMap",
                 sb1 |-> "LsbMap", sb2 |-> "RsbMap", vOrigMapping |-> "none" ]
VVAR_FIELDS == [ tableTag |-> "VVAR", advMapping |-> "AdvHeightMap",
                 sb1 |-> "TsbMap", sb2 |-> "BsbMap", vOrigMapping |-> "VOrgMap" ]

\* a plausible slip: the mapping is left as it was
remapVarIdxMap_NotRemapped(mapping, store, choice) == mapping

\* _remapVarIdxMap (430-433); a mapping is the list of the glyphs' VarIdx in
\* glyph order, the empty list when the table has no such mapping
remapVarIdxMap(mapping, store, choice) ==
    [k \in 1..Len(mapping) |-> varIndexMapping(store, choice, mapping[k])]

\* 454-470: the new store; optimized, and the mappings rewritten, only when
\* the table has an indirect advance mapping
vhvarWritten(vhvar, tableFields, r, choice) ==
    IF r.store.Region # <<>> /\ vhvar[tableFields.advMapping] # <<>>
    THEN [f \in DOMAIN vhvar |->
            IF f = "VarStore" THEN optimizedStore(r.store, choice)
            ELSE remapVarIdxMap(vhvar[f], r.store, choice)]
    ELSE [vhvar EXCEPT !.VarStore = r.store]

\* every axis of fvar is pinned by the limits (442-444)
allAxesPinned(fvarAxes, axisLimits) ==
    \A k \in 1..Len(fvarAxes) :
        /\ fvarAxes[k].axisTag \in DOMAIN axisLimits
        /\ ~IsTuple(axisLimits[fvarAxes[k].axisTag])

\* _instantiateVHVAR (437-470)
instantiateVHVAR(varfont, axisLimits, tableFields, choice) ==
    IF allAxesPinned(varfont["fvar"].axes, axisLimits)
    THEN DelTable(varfont, tableFields.tableTag)
    ELSE SetTable(varfont, tableFields.tableTag,
            vhvarWritten(varfont[tableFields.tableTag], tableFields,
                instantiateItemVariationStore(varfont[tableFields.tableTag].VarStore,
                    axisTagsOf(varfont["fvar"].axes), axisLimits),
                choice))

\* instantiateHVAR (473-474)
instantiateHVAR(varfont, location, choice) ==
    instantiateVHVAR(varfont, location, HVAR_FIELDS, choice)

\* instantiateVVAR (477-478)
instantiateVVAR(varfont, location, choice) ==
    instantiateVHVAR(varfont, location, VVAR_FIELDS, choice)

\* MutatorMerger on one value with a device table (the VarIdx of the value,
\* -1 when it has none): the rounded default delta is added, and the device
\* is deleted when deleteVariations is set
mergedValue(value, defaultDeltas, deleteVariations) ==
    IF value.DeviceTable < 0 THEN value
    ELSE [ Coordinate |-> value.Coordinate + otRound(defaultDeltas[value.DeviceTable]),
           DeviceTable |-> IF deleteVariations THEN -1 ELSE value.DeviceTable ]

\* remap_device_varidxes on one value
remappedValue(value, store, choice) ==
    IF value.DeviceTable < 0 THEN value
    ELSE [value EXCEPT !.DeviceTable = varIndexMapping(store, choice, @)]

\* 640-648: merger, then remap_device_varidxes when regions are left
otlValues(values, r, choice) ==
    [k \in 1..Len(values) |->
        IF r.store.Region # <<>>
        THEN remappedValue(mergedValue(values[k], r.defaultDeltas, FALSE),
                           r.store, choice)
        ELSE mergedValue(values[k], r.defaultDeltas, TRUE)]

\* 649-655: GDEF without its VarStore, downgraded to version 1.2, or to
\* version 1.0 when it has no MarkGlyphSetsDef
downgradedGdef(gdef, ligCaretList) ==
    [f \in (DOMAIN gdef) \ {"VarStore"} |->
        IF f = "Version" THEN (IF gdef.MarkGlyphSetsDef THEN 65538 ELSE 65536)
        ELSE IF f = "LigCaretList" THEN ligCaretList
        ELSE gdef[f]]

\* 657-665: GDEF has something left (the fonts of the model have no
\* MarkAttachClassDef and no AttachList)
gdefHasContent(gdef) ==
    \/ gdef.LigCaretList # <<>>
    \/ gdef.GlyphClassDef
    \/ (gdef.Version >= 65538 /\ gdef.MarkGlyphSetsDef)

\* 630-665: GDEF and GPOS once the store has been instantiated
otlWritten(varfont, r, choice) ==
    [t \in (DOMAIN varfont) \
           (IF /\ r.store.Region = <<>>
               /\ ~gdefHasContent(downgradedGdef(varfont["GDEF"],
                      otlValues(varfont["GDEF"].LigCaretList, r, choice)))
            THEN {"GDEF"} ELSE {}) |->
        IF t = "GDEF"
        THEN IF r.store.Region # <<>>
             THEN [varfont["GDEF"] EXCEPT
                     !.VarStore = optimizedStore(r.store, choice),
                     !.LigCaretList = otlValues(@, r, choice)]
             ELSE downgradedGdef(varfont["GDEF"],
                                 otlValues(varfont["GDEF"].LigCaretList, r, choice))
        ELSE IF t = "GPOS"
        THEN [varfont["GPOS"] EXCEPT !.Anchor = otlValues(@, r, choice)]
        ELSE varfont[t]]

\* instantiateOTL (609-665)
instantiateOTL(varfont, location, choice) ==
    IF "GDEF" \notin DOMAIN varfont THEN varfont
    ELSE IF varfont["GDEF"].Version < 65539 THEN varfont
    ELSE IF "VarStore" \notin DOMAIN varfont["GDEF"] THEN varfont
    ELSE otlWritten(varfont,
            instantiateItemVariationStore(varfont["GDEF"].VarStore,
                axisTagsOf(varfont["fvar"].axes), location),
            choice)

-----------------------------------------------------------------------------
(* Feature variations (668-848).  A layout table (GSUB, GPOS) with feature *)
(* variations has the fields FeatureList (the list of the Features) and    *)
(* FeatureVariations (the list of FeatureVariationRecords, each            *)
(* [ConditionSet |-> list of [Format, AxisIndex, FilterRangeMinValue,      *)
(* FilterRangeMaxValue], Version, SubstitutionRecord |-> list of           *)
(* [FeatureIndex, Feature]]); indices count from 0.                        *)

\* axisOrder.index(axisTag), counted from 0
axisIndexMap(axisOrder, axisTag) == IndexOf(axisTag, axisOrder) - 1

RECURSIVE instantiateConditions(_, _, _, _, _, _)
\* the loop of _instantiateFeatureVariationRecord (748-772) from condition i
\* on: acc is [applies, newConditions, broken (the loop broke, newConditions
\* is None)]
instantiateConditions(conditions, i, location, fvarAxes, axisOrder, acc) ==
    IF i > Len(conditions) THEN acc
    ELSE IF conditions[i].Format # 1
    THEN instantiateConditions(conditions, i + 1, location, fvarAxes, axisOrder,
            [acc EXCEPT !.applies = FALSE,
                        !.newConditions = Append(@, conditions[i])])
    ELSE IF fvarAxes[conditions[i].AxisIndex + 1] \in DOMAIN location
    THEN IF /\ RLe(conditions[i].FilterRangeMinValue,
                   location[fvarAxes[conditions[i].AxisIndex + 1]])
            /\ RLe(location[fvarAxes[conditions[i].AxisIndex + 1]],
                   conditions[i].FilterRangeMaxValue)
         THEN instantiateConditions(conditions, i + 1, location, fvarAxes,
                                    axisOrder, acc)
         ELSE [applies |-> FALSE, newConditions |-> <<>>, broken |-> TRUE]
    ELSE instantiateConditions(conditions, i + 1, location, fvarAxes, axisOrder,
            [acc EXCEPT !.applies = FALSE,
                        !.newConditions = Append(@,
                            [conditions[i] EXCEPT !.AxisIndex =
                                axisIndexMap(axisOrder,
                                    fvarAxes[conditions[i].AxisIndex + 1])])])

\* 774-780: the conditions replaced when any is left; [applies, shouldKeep,
\* record]
instantiatedRecord(record, acc) ==
    [ applies |-> acc.applies,
      shouldKeep |-> acc.newConditions # <<>>,
      record |-> IF acc.newConditions # <<>>
                 THEN [record EXCEPT !.ConditionSet = acc.newConditions]
                 ELSE record ]

\* _instantiateFeatureVariationRecord (743-780); fvarAxes is the list of the
\* axis tags of fvar
instantiateFeatureVariationRecord(record, location, fvarAxes, axisOrder) ==
    instantiatedRecord(record,
        instantiateConditions(record.ConditionSet, 1, location, fvarAxes, axisOrder,
            [applies |-> TRUE, newConditions |-> <<>>, broken |-> FALSE]))

\* 717-733: one end of the condition rebased to the new range
limitedConditionValue(value, axisRange) ==
    IF RLt(value, Zero)
    THEN IF axisRange.minimum = Zero THEN Zero
         ELSE IF RLe(RDiv(value, RAbs(axisRange.minimum)), MinusOne) THEN MinusOne
         ELSE RDiv(value, RAbs(axisRange.minimum))
    ELSE IF RLt(Zero, value)
    THEN IF axisRange.maximum = Zero THEN Zero
         ELSE IF RLe(One, RDiv(value, axisRange.maximum)) THEN One
         ELSE RDiv(value, axisRange.maximum)
    ELSE Zero

\* 708-714: the condition is invalid or out of the range
conditionOutOfRange(condition, axisRange) ==
    \/ RLt(condition.FilterRangeMaxValue, condition.FilterRangeMinValue)
    \/ RLt(axisRange.maximum, condition.FilterRangeMinValue)
    \/ RLt(condition.FilterRangeMaxValue, axisRange.minimum)

\* _limitFeatureVariationConditionRange (704-740) applied to the condition
limitedCondition(condition, axisRange) ==
    [condition EXCEPT
        !.FilterRangeMinValue = limitedConditionValue(@, axisRange),
        !.FilterRangeMaxValue = limitedConditionValue(@, axisRange)]

RECURSIVE limitConditions(_, _, _, _, _)
\* the loop of _limitFeatureVariationRecord (785-804) from condition i on;
\* the axis of a condition is looked up in fvarAxes by the AxisIndex the
\* condition has now
limitConditions(conditions, i, axisRanges, fvarAxes, acc) ==
    IF i > Len(conditions) THEN acc
    ELSE IF conditions[i].Format # 1
    THEN limitConditions(conditions, i + 1, axisRanges, fvarAxes,
            [acc EXCEPT !.newConditions = Append(@, conditions[i])])
    ELSE IF fvarAxes[conditions[i].AxisIndex + 1] \notin DOMAIN axisRanges
    THEN limitConditions(conditions, i + 1, axisRanges, fvarAxes,
            [acc EXCEPT !.newConditions = Append(@, conditions[i])])
    ELSE IF conditionOutOfRange(conditions[i],
                axisRanges[fvarAxes[conditions[i].AxisIndex + 1]])
    THEN [newConditions |-> <<>>, broken |-> TRUE]
    ELSE limitConditions(conditions, i + 1, axisRanges, fvarAxes,
            [acc EXCEPT !.newConditions = Append(@,
                limitedCondition(conditions[i],
                    axisRanges[fvarAxes[conditions[i].AxisIndex + 1]]))])

\* 806-812: [shouldKeep, record]
limitedRecord(record, acc) ==
    [ shouldKeep |-> acc.newConditions # <<>>,
      record |-> IF acc.newConditions # <<>>
                 THEN [record EXCEPT !.ConditionSet = acc.newConditions]
                 ELSE record ]

\* _limitFeatureVariationRecord (783-812)
limitFeatureVariationRecord(record, axisRanges, fvarAxes) ==
    limitedRecord(record,
        limitConditions(record.ConditionSet, 1, axisRanges, fvarAxes,
            [newConditions |-> <<>>, broken |-> FALSE]))

\* the key of _featureVariationRecordIsUnique (682-701): the version and the
\* set of the conditions
recordKey(rec) ==
    [ Version |-> rec.Version,
      conditionSet |-> { <<rec.ConditionSet[i].AxisIndex,
                           rec.ConditionSet[i].FilterRangeMinValue,
                           rec.ConditionSet[i].FilterRangeMaxValue>> :
                         i \in 1..Len(rec.ConditionSet) } ]

\* a record with a condition of another format is taken to be unique
hasOnlyFormat1(rec) ==
    \A i \in 1..Len(rec.ConditionSet) : rec.ConditionSet[i].Format = 1

\* _featureVariationRecordIsUnique (682-701)
featureVariationRecordIsUnique(rec, seen) ==
    ~hasOnlyFormat1(rec) \/ recordKey(rec) \notin seen

RECURSIVE applySubstitutions(_, _, _)
\* 838-842: the Features of the substitution records k.. written into the
\* feature list
applySubstitutions(featureList, substitutions, k) ==
    IF k > Len(substitutions) THEN featureList
    ELSE applySubstitutions(
            [featureList EXCEPT ![substitutions[k].FeatureIndex + 1] =
                substitutions[k].Feature],
            substitutions, k + 1)

\* 827-831: the record instantiated, and limited if it is still kept
keptRecord(pinnedRecord, axisRanges, fvarAxes) ==
    IF pinnedRecord.shouldKeep
    THEN [ applies |-> pinnedRecord.applies ]
         @@ limitFeatureVariationRecord(pinnedRecord.record, axisRanges, fvarAxes)
    ELSE pinnedRecord

\* a plausible slip: every record that applies writes its substitutions
recordTaken_AppliedEveryTime(st, kept) ==
    [ newRecords |->
        IF kept.shouldKeep /\ featureVariationRecordIsUnique(kept.record, st.uniqueRecords)
        THEN Append(st.newRecords, kept.record)
        ELSE st.newRecords,
      uniqueRecords |->
        IF kept.shouldKeep /\ hasOnlyFormat1(kept.record)
        THEN st.uniqueRecords \cup {recordKey(kept.record)}
        ELSE st.uniqueRecords,
      FeatureList |->
        IF kept.applies
        THEN applySubstitutions(st.FeatureList, kept.record.SubstitutionRecord, 1)
        ELSE st.FeatureList,
      featureVariationApplied |-> st.featureVariationApplied \/ kept.applies ]

\* 833-842: one record taken into the state of the loop
recordTaken(st, kept) ==
    [ newRecords |->
        IF kept.shouldKeep /\ featureVariationRecordIsUnique(kept.record, st.uniqueRecords)
        THEN Append(st.newRecords, kept.record)
        ELSE st.newRecords,
      uniqueRecords |->
        IF kept.shouldKeep /\ hasOnlyFormat1(kept.record)
        THEN st.uniqueRecords \cup {recordKey(kept.record)}
        ELSE st.uniqueRecords,
      FeatureList |->
        IF kept.applies /\ ~st.featureVariationApplied
        THEN applySubstitutions(st.FeatureList, kept.record.SubstitutionRecord, 1)
        ELSE st.FeatureList,
      featureVariationApplied |-> st.featureVariationApplied \/ kept.applies ]

RECURSIVE featureVariationLoop(_, _, _, _, _, _, _)
\* the loop of _instantiateFeatureVariations (826-842) from record i on
featureVariationLoop(records, i, location, axisRanges, fvarAxes, axisOrder, st) ==
    IF i > Len(records) THEN st
    ELSE featureVariationLoop(records, i + 1, location, axisRanges, fvarAxes,
            axisOrder,
            recordTaken(st,
                keptRecord(
                    instantiateFeatureVariationRecord(records[i], location,
                                                      fvarAxes, axisOrder),
                    axisRanges, fvarAxes)))

\* 844-848: the new records, or no FeatureVariations at all
featureVariationsWritten(table, st) ==
    [f \in (DOMAIN table) \
           (IF st.newRecords = <<>> THEN {"FeatureVariations"} ELSE {}) |->
        IF f = "FeatureVariations" THEN st.newRecords
        ELSE IF f = "FeatureList" THEN st.FeatureList
        ELSE table[f]]

\* a plausible slip: the pinned axes are not left out of the new axis order
unpinnedAxes_PinnedKept(fvarAxes, location) == fvarAxes

\* [axis.axisTag for axis in fvarAxes if axis.axisTag not in pinnedAxes] (820)
unpinnedAxes(fvarAxes, location) ==
    SelectSeq(fvarAxes, LAMBDA a : a \notin DOMAIN location)

\* _instantiateFeatureVariations (815-848) with the limits split
instantiateFeatureVariationsWith(table, fvarAxes, split) ==
    featureVariationsWritten(table,
        featureVariationLoop(table.FeatureVariations, 1, split.location,
            split.axisRanges, fvarAxes, unpinnedAxes(fvarAxes, split.location),
            [ newRecords |-> <<>>, uniqueRecords |-> {},
              FeatureList |-> table.FeatureList,
              featureVariationApplied |-> FALSE ]))

\* the part of instantiateFeatureVariations (668-679) for one table tag
instantiateFeatureVariationsOf(varfont, tableTag, axisLimits) ==
    IF tableTag \notin DOMAIN varfont THEN varfont
    ELSE IF "FeatureVariations" \notin DOMAIN varfont[tableTag] THEN varfont
    ELSE SetTable(varfont, tableTag,
            instantiateFeatureVariationsWith(varfont[tableTag],
                axisTagsOf(varfont["fvar"].axes),
                splitAxisLocationAndRanges(axisLimits)))

\* instantiateFeatureVariations (668-679)
instantiateFeatureVariations(varfont, axisLimits) ==
    instantiateFeatureVariationsOf(
        instantiateFeatureVariationsOf(varfont, "GPOS", axisLimits),
        "GSUB", axisLimits)

-----------------------------------------------------------------------------
(* avar (851-938).  font["avar"] is [segments |-> axis tag -> segment map],*)
(* a segment map being the set of its <<fromCoordinate, toCoordinate>>     *)
(* pairs.                                                                   *)

\* _isValidAvarSegmentMap (851-870)
isValidAvarSegmentMap(segmentMap) ==
    \/ segmentMap = {}
    \/ /\ { <<MinusOne, MinusOne>>, <<Zero, Zero>>, <<One, One>> } \subseteq segmentMap
       /\ \A p, q \in segmentMap : RLt(p[1], q[1]) => RLe(p[2], q[2])

\* 915-922: the entry survives the new range
keyInRange(key, axisRange) ==
    IF RLt(key, Zero)
    THEN ~(axisRange.minimum = Zero \/ RLt(key, axisRange.minimum))
    ELSE IF RLt(Zero, key)
    THEN ~(axisRange.maximum = Zero \/ RLt(axisRange.maximum, key))
    ELSE TRUE

\* 915-922: the key rebased
rebasedKey(key, axisRange) ==
    IF RLt(key, Zero) THEN RDiv(key, RAbs(axisRange.minimum))
    ELSE IF RLt(Zero, key) THEN RDiv(key, axisRange.maximum)
    ELSE key

\* 923-930: an assert of the loop fails for the value
valueAssertFails(value, mappedMin, mappedMax) ==
    IF RLt(value, Zero) THEN mappedMin = Zero \/ RLt(value, mappedMin)
    ELSE IF RLt(Zero, value) THEN mappedMax = Zero \/ RLt(mappedMax, value)
    ELSE FALSE

\* 923-930: the value rebased
rebasedValue(value, mappedMin, mappedMax) ==
    IF RLt(value, Zero) THEN RDiv(value, RAbs(mappedMin))
    ELSE IF RLt(Zero, value) THEN RDiv(value, mappedMax)
    ELSE value

\* 911-935: the new mapping of a range-limited axis, re-anchored at -1 and +1
rebasedMapping(mapping, axisRange, mappedMin, mappedMax) ==
    { p \in { << floatToFixedToFloat14(rebasedKey(q[1], axisRange)),
                 floatToFixedToFloat14(rebasedValue(q[2], mappedMin, mappedMax)) >> :
              q \in { e \in mapping : keyInRange(e[1], axisRange) } } :
        p[1] # MinusOne /\ p[1] # One }
    \cup { <<MinusOne, MinusOne>>, <<One, One>> }

\* an assert fails for some entry that survives the new range
mappingAssertFails(mapping, axisRange, mappedMin, mappedMax) ==
    \E e \in mapping :
        keyInRange(e[1], axisRange) /\ valueAssertFails(e[2], mappedMin, mappedMax)

\* the axes whose segment map gets into newSegments (900-903, 936-937)
keptSegmentAxes(segments) ==
    { a \in DOMAIN segments : isValidAvarSegmentMap(segments[a]) }

\* the axes whose segment map is rebased (904)
rebasedSegmentAxes(segments, normalizedRanges) ==
    { a \in keptSegmentAxes(segments) :
        segments[a] # {} /\ a \in DOMAIN normalizedRanges }

\* 905-910
mappedEnd(v, mapping) == floatToFixedToFloat14(piecewiseLinearMap(v, mapping))

\* 899-938: the new segments, or the AssertionError of the loop
newSegmentsOf(segments, normalizedRanges) ==
    IF \E a \in rebasedSegmentAxes(segments, normalizedRanges) :
          mappingAssertFails(segments[a], normalizedRanges[a],
              mappedEnd(normalizedRanges[a].minimum, segments[a]),
              mappedEnd(normalizedRanges[a].maximum, segments[a]))
    THEN Raised("AssertionError")
    ELSE Returned(
           [a \in keptSegmentAxes(segments) |->
               IF a \in rebasedSegmentAxes(segments, normalizedRanges)
               THEN rebasedMapping(segments[a], normalizedRanges[a],
                        mappedEnd(normalizedRanges[a].minimum, segments[a]),
                        mappedEnd(normalizedRanges[a].maximum, segments[a]))
               ELSE segments[a]])

\* 885-887: the segment maps of the pinned axes deleted
unpinnedSegments(segments, location) ==
    [a \in (DOMAIN segments) \ (DOMAIN location) |-> segments[a]]

\* the limits that are ranges, as AxisRange instances
rangesAsLimits(axisRanges) ==
    [a \in DOMAIN axisRanges |->
        Range(axisRanges[a].minimum, axisRanges[a].maximum)]

\* 885-887 written to the table
segmentsUnpinned(varfont, location) ==
    SetTable(varfont, "avar",
        [segments |-> unpinnedSegments(varfont["avar"].segments, location)])

\* 898-938 once the ranges are normalized; an error leaves the table with
\* the segment maps of the pinned axes deleted
avarWritten(varfont, location, normalized) ==
    IF normalized.error # "none"
    THEN RaisedAfter(normalized.error, segmentsUnpinned(varfont, location))
    ELSE IF newSegmentsOf(unpinnedSegments(varfont["avar"].segments, location),
                          normalized.value).error # "none"
    THEN RaisedAfter("AssertionError", segmentsUnpinned(varfont, location))
    ELSE Returned(SetTable(varfont, "avar",
            [segments |->
                newSegmentsOf(unpinnedSegments(varfont["avar"].segments, location),
                              normalized.value).value]))

\* instantiateAvar (873-938) with the limits split
instantiateAvarWith(varfont, split) ==
    IF split.error # "none" THEN Raised(split.error)
    ELSE IF DOMAIN varfont["avar"].segments \subseteq DOMAIN split.location
    THEN Returned(DelTable(varfont, "avar"))
    ELSE avarWritten(varfont, split.location,
            normalizeAxisLimits(varfont, rangesAsLimits(split.axisRanges), FALSE))

\* instantiateAvar (873-938); axisLimits are the user-space limits
instantiateAvar(varfont, axisLimits) ==
    instantiateAvarWith(varfont, splitAxisLocationAndRanges(axisLimits))

-----------------------------------------------------------------------------
(* fvar and STAT (941-1041) and the name table (1044-1085).  font["fvar"]  *)
(* is [axes |-> list of [axisTag, minValue, defaultValue, maxValue,        *)
(* axisNameID], instances |-> list of [coordinates |-> axis tag -> value,  *)
(* subfamilyNameID]]; font["STAT"] is [DesignAxisRecord |-> list of        *)
(* [AxisTag, AxisNameID], AxisValue |-> list of [Format, AxisIndex, Value  *)
(* (NominalValue for format 2), AxisValueRecord |-> list of [AxisIndex,    *)
(* Value] (format 4), ValueNameID]]; font["name"] is the set of the name   *)
(* IDs that have records.                                                   *)

\* isInstanceWithinAxisRanges (941-947)
isInstanceWithinAxisRanges(location, axisRanges) ==
    \A a \in (DOMAIN location) \cap (DOMAIN axisRanges) :
        ~(RLt(location[a], axisRanges[a].minimum)
          \/ RLt(axisRanges[a].maximum, location[a]))

\* 964-973: the axis kept, with the new minimum and maximum when it is limited
limitedAxis(axis, axisRanges) ==
    IF axis.axisTag \in DOMAIN axisRanges
    THEN [axis EXCEPT !.minValue = axisRanges[axis.axisTag].minimum,
                      !.maxValue = axisRanges[axis.axisTag].maximum]
    ELSE axis

\* a plausible slip: the ranges are not looked at
instanceKept_RangesIgnored(instance, location, axisRanges) ==
    \A a \in DOMAIN location : instance.coordinates[a] = location[a]

\* 978-984: the instance is kept
instanceKept(instance, location, axisRanges) ==
    /\ \A a \in DOMAIN location : instance.coordinates[a] = location[a]
    /\ isInstanceWithinAxisRanges(
          [a \in (DOMAIN instance.coordinates) \ (DOMAIN location) |->
              instance.coordinates[a]], axisRanges)

\* 981-982: the coordinates of the pinned axes deleted
strippedInstance(instance, location) ==
    [instance EXCEPT !.coordinates =
        [a \in (DOMAIN instance.coordinates) \ (DOMAIN location) |->
            instance.coordinates[a]]]

\* a plausible slip: the pinned axes stay in the axis list
fvarWritten_PinnedAxesKept(fvar, location, axisRanges) ==
    [ axes |-> [k \in 1..Len(fvar.axes) |-> limitedAxis(fvar.axes[k], axisRanges)],
      instances |->
        [k \in 1..Len(SelectSeq(fvar.instances,
                          LAMBDA i : instanceKept(i, location, axisRanges))) |->
            strippedInstance(SelectSeq(fvar.instances,
                LAMBDA i : instanceKept(i, location, axisRanges))[k], location)] ]

\* 964-985: the new axes and instances
fvarWritten(fvar, location, axisRanges) ==
    [ axes |->
        [k \in 1..Len(SelectSeq(fvar.axes, LAMBDA x : x.axisTag \notin DOMAIN location)) |->
            limitedAxis(SelectSeq(fvar.axes,
                            LAMBDA x : x.axisTag \notin DOMAIN location)[k],
                        axisRanges)],
      instances |->
        [k \in 1..Len(SelectSeq(fvar.instances,
                          LAMBDA i : instanceKept(i, location, axisRanges))) |->
            strippedInstance(SelectSeq(fvar.instances,
                LAMBDA i : instanceKept(i, location, axisRanges))[k], location)] ]

\* instantiateFvar (950-985) with the limits split
instantiateFvarWith(varfont, split) ==
    IF split.error # "none" THEN Raised(split.error)
    ELSE IF \A k \in 1..Len(varfont["fvar"].axes) :
               varfont["fvar"].axes[k].axisTag \in DOMAIN split.location
    THEN Returned(DelTable(varfont, "fvar"))
    ELSE Returned(SetTable(varfont, "fvar",
            fvarWritten(varfont["fvar"], split.location, split.axisRanges)))

\* instantiateFvar (950-985)
instantiateFvar(varfont, axisLimits) ==
    instantiateFvarWith(varfont, splitAxisLocationAndRanges(axisLimits))

\* isAxisValueOutsideLimits (999-1006)
isAxisValueOutsideLimits(axisTag, axisValue, location, axisRanges) ==
    IF axisTag \in DOMAIN location /\ axisValue # location[axisTag] THEN TRUE
    ELSE IF axisTag \in DOMAIN axisRanges
    THEN RLt(axisValue, axisRanges[axisTag].minimum)
         \/ RLt(axisRanges[axisTag].maximum, axisValue)
    ELSE FALSE

\* 1014-1037: the AxisValue table is dropped
axisValueDropped(axisValueTable, designAxes, location, axisRanges) ==
    IF axisValueTable.Format \in {1, 2, 3}
    THEN isAxisValueOutsideLimits(designAxes[axisValueTable.AxisIndex + 1].AxisTag,
                                  axisValueTable.Value, location, axisRanges)
    ELSE IF axisValueTable.Format = 4
    THEN \E k \in 1..Len(axisValueTable.AxisValueRecord) :
            isAxisValueOutsideLimits(
                designAxes[axisValueTable.AxisValueRecord[k].AxisIndex + 1].AxisTag,
                axisValueTable.AxisValueRecord[k].Value, location, axisRanges)
    ELSE FALSE

\* instantiateSTAT (988-1041) with the limits split
instantiateSTATWith(varfont, split) ==
    IF split.error # "none" THEN Raised(split.error)
    ELSE Returned(SetTable(varfont, "STAT",
            [varfont["STAT"] EXCEPT !.AxisValue =
                SelectSeq(@, LAMBDA v :
                    ~axisValueDropped(v, varfont["STAT"].DesignAxisRecord,
                                      split.location, split.axisRanges))]))

\* instantiateSTAT (988-1041); nothing is done, and the limits are not
\* looked at, when STAT has no axes or no values
instantiateSTAT(varfont, axisLimits) ==
    IF varfont["STAT"].DesignAxisRecord = <<>> \/ varfont["STAT"].AxisValue = <<>>
    THEN Returned(varfont)
    ELSE instantiateSTATWith(varfont, splitAxisLocationAndRanges(axisLimits))

\* the name IDs a list of records uses in the field
nameIDsOf(records, field) == { records[k][field] : k \in 1..Len(records) }

\* getVariationNameIDs (1044-1060)
getVariationNameIDs(varfont) ==
    { n \in (IF "fvar" \in DOMAIN varfont
             THEN nameIDsOf(varfont["fvar"].axes, "axisNameID")
                  \cup nameIDsOf(varfont["fvar"].instances, "subfamilyNameID")
             ELSE {})
            \cup
            (IF "STAT" \in DOMAIN varfont
             THEN nameIDsOf(varfont["STAT"].DesignAxisRecord, "AxisNameID")
                  \cup nameIDsOf(varfont["STAT"].AxisValue, "ValueNameID")
             ELSE {}) :
        n > 255 }

\* pruningUnusedNames after the yield (1069-1074)
prunedNames(varfont, origNameIDs) ==
    SetTable(varfont, "name",
             varfont["name"] \ (origNameIDs \ getVariationNameIDs(varfont)))

\* 1229-1231: the overlap flags set on a full instance
overlapFlagsSet(varfont, overlap) ==
    IF "fvar" \notin DOMAIN varfont /\ "glyf" \in DOMAIN varfont /\ overlap
    THEN [varfont EXCEPT !["glyf"].overlap = TRUE]
    ELSE varfont

\* varLib.set_default_weight_width_slant for the wght axis: the weight class
\* is the pinned coordinate, rounded and kept within 1..1000
weightClassOf(wght) ==
    IF otRound(wght) < 1 THEN 1
    ELSE IF otRound(wght) > 1000 THEN 1000
    ELSE otRound(wght)

\* 1233-1240: the defaults set for the pinned axes (wght only in this model)
setDefaultWeightWidthSlant(varfont, axisLimits) ==
    IF /\ "wght" \in DOMAIN axisLimits
       /\ "OS/2" \in DOMAIN varfont
    THEN IF ~IsTuple(axisLimits["wght"])
         THEN [varfont EXCEPT !["OS/2"].usWeightClass =
                                   weightClassOf(axisLimits["wght"].minimum)]
         ELSE varfont
    ELSE varfont

-----------------------------------------------------------------------------
(* instantiateVariableFont (1159-1242) as one function of its arguments.   *)

\* the next operation when the last one returned, the error when it raised
Bind(outcome, Op(_)) ==
    IF outcome.error # "none" THEN outcome ELSE Op(outcome.value)

\* 1201-1214: each of these stages runs when the font has the table
ifGvar(varfont, normalizedLimits) ==
    IF "gvar" \in DOMAIN varfont THEN instantiateGvar(varfont, normalizedLimits)
    ELSE varfont
ifCvar(varfont, normalizedLimits) ==
    IF "cvar" \in DOMAIN varfont THEN instantiateCvar(varfont, normalizedLimits)
    ELSE varfont
ifMVAR(varfont, normalizedLimits, choice) ==
    IF "MVAR" \in DOMAIN varfont THEN instantiateMVAR(varfont, normalizedLimits, choice)
    ELSE varfont
ifHVAR(varfont, normalizedLimits, choice) ==
    IF "HVAR" \in DOMAIN varfont THEN instantiateHVAR(varfont, normalizedLimits, choice)
    ELSE varfont
ifVVAR(varfont, normalizedLimits, choice) ==
    IF "VVAR" \in DOMAIN varfont THEN instantiateVVAR(varfont, normalizedLimits, choice)
    ELSE varfont

\* 1220-1221, 1224-1225
ifAvar(varfont, axisLimits) ==
    IF "avar" \in DOMAIN varfont THEN instantiateAvar(varfont, axisLimits)
    ELSE Returned(varfont)
ifSTAT(varfont, axisLimits) ==
    IF "STAT" \in DOMAIN varfont THEN instantiateSTAT(varfont, axisLimits)
    ELSE Returned(varfont)

\* 1201-1218: the stages that take the normalized limits
variationTablesInstantiated(varfont, normalizedLimits, choice) ==
    instantiateFeatureVariations(
        instantiateOTL(
            ifVVAR(ifHVAR(ifMVAR(ifCvar(ifGvar(varfont, normalizedLimits),
                                        normalizedLimits),
                                 normalizedLimits, choice),
                          normalizedLimits, choice),
                   normalizedLimits, choice),
            normalizedLimits, choice),
        normalizedLimits)

\* 1223-1227: STAT and fvar within pruningUnusedNames; an exception leaves
\* the block without pruning
namesPruned(varfont, axisLimits) ==
    Bind(Bind(ifSTAT(varfont, axisLimits),
              LAMBDA f : instantiateFvar(f, axisLimits)),
         LAMBDA f : Returned(prunedNames(f, getVariationNameIDs(varfont))))

\* 1229-1242
finished(varfont, axisLimits, overlap) ==
    setDefaultWeightWidthSlant(overlapFlagsSet(varfont, overlap), axisLimits)

\* 1197-1242 for the limits with the defaults filled in
instantiatedWithin(varfont, axisLimits, overlap, choice) ==
    Bind(Bind(Bind(normalizeAxisLimits(varfont, axisLimits, TRUE),
                   LAMBDA n : ifAvar(variationTablesInstantiated(varfont, n, choice),
                                     axisLimits)),
              LAMBDA f : namesPruned(f, axisLimits)),
         LAMBDA f : Returned(finished(f, axisLimits, overlap)))

\* instantiateVariableFont (1159-1242): the font returned, or the error
instantiateVariableFont(varfont, axisLimits, overlap, choice) ==
    IF sanityCheckVariableTables(varfont) # "none"
    THEN Raised(sanityCheckVariableTables(varfont))
    ELSE Bind(populateAxisDefaults(varfont, axisLimits),
              LAMBDA l : instantiatedWithin(varfont, l, overlap, choice))

-----------------------------------------------------------------------------
(* Spec: one call of instantiateVariableFont on a font of the pool, one    *)
(* step per statement of its body (1190-1242).                             *)

\* the axes of the pool's fonts: wght 400..800 with the default at its
\* minimum, wdth 50..150 around 100
PoolFvar ==
    [ axes |->
        << [ axisTag |-> "wght", minValue |-> Num(400), defaultValue |-> Num(400),
             maxValue |-> Num(800), axisNameID |-> 256 ],
           [ axisTag |-> "wdth", minValue |-> Num(50), defaultValue |-> Num(100),
             maxValue |-> Num(150), axisNameID |-> 257 ] >>,
      instances |->
        << [ coordinates |-> [a \in AxisTags |->
                                IF a = "wght" THEN Num(400) ELSE Num(100)],
             subfamilyNameID |-> 258 ],
           [ coordinates |-> [a \in AxisTags |->
                                IF a = "wght" THEN Num(800) ELSE Num(100)],
             subfamilyNameID |-> 259 ],
           [ coordinates |-> [a \in AxisTags |->
                                IF a = "wght" THEN Num(400) ELSE Num(75)],
             subfamilyNameID |-> 260 ] >> ]

PoolGlyf ==
    [ coordinates |-> [g \in {"A", "B"} |->
                         [i \in 1..NumItems |->
                             IF g = "A" THEN Num(100 * (i - 1)) ELSE Num(40 + 10 * i)]],
      overlap |-> FALSE ]

PoolGvar ==
    [ variations |-> [g \in {"A", "B"} |->
        IF g = "A"
        THEN << TupleVariation(PoolAxes[1], PoolDeltas(1)),
                TupleVariation(PoolAxes[3], PoolDeltas(3)) >>
        ELSE << TupleVariation(PoolAxes[2], PoolDeltas(2)),
                TupleVariation(PoolAxes[4], PoolDeltas(4)) >>] ]

PoolCvar ==
    [ variations |-> << TupleVariation(PoolAxes[2], PoolDeltas(2)),
                        TupleVariation(PoolAxes[5], PoolDeltas(5)) >> ]

\* an item-variation store with the subtables of the region indices
PoolStore(regionIndices) ==
    [ Region |-> << PoolAxes[1], PoolAxes[3], PoolAxes[4] >>,
      axisOrder |-> << "wght", "wdth" >>,
      VarData |-> [m \in 1..Len(regionIndices) |->
          VarData(regionIndices[m], IvsItems(regionIndices[m], NumItems))] ]

PoolOS2 == [ usWeightClass |-> 400, sxHeight |-> 500, sCapHeight |-> 700 ]

PoolMVAR ==
    [ VarStore |-> PoolStore(<< <<1, 2>>, <<3>> >>),
      ValueRecord |-> << [ ValueTag |-> "xhgt", VarIdx |-> 0 ],
                         [ ValueTag |-> "cpht", VarIdx |-> 65537 ],
                         [ ValueTag |-> "undo", VarIdx |-> 1 ] >> ]

PoolHVAR ==
    [ VarStore |-> PoolStore(<< <<1, 3>> >>),
      AdvWidthMap |-> << 1, 0 >>, LsbMap |-> << 0, 0 >>, RsbMap |-> <<>> ]

PoolVVAR ==
    [ VarStore |-> PoolStore(<< <<2, 1>> >>),
      AdvHeightMap |-> <<>>, TsbMap |-> <<>>, BsbMap |-> <<>>, VOrgMap |-> <<>> ]

\* a VVAR table with indirect mappings, the vertical-origin one among them
PoolVVARIndirect ==
    [ VarStore |-> PoolStore(<< <<2, 1>> >>),
      AdvHeightMap |-> << 0, 1 >>, TsbMap |-> << 1, 1 >>, BsbMap |-> <<>>,
      VOrgMap |-> << 1, 0 >> ]

PoolGDEF ==
    [ Version |-> 65539,
      VarStore |-> PoolStore(<< <<1, 2, 3>> >>),
      LigCaretList |-> << [ Coordinate |-> 5, DeviceTable |-> 0 ] >>,
      GlyphClassDef |-> FALSE,
      MarkGlyphSetsDef |-> FALSE ]

PoolGPOS ==
    [ Anchor |-> << [ Coordinate |-> 10, DeviceTable |-> 1 ],
                    [ Coordinate |-> 3, DeviceTable |-> -1 ] >>,
      FeatureList |-> << "kern" >> ]

\* a condition of format 1 on the axis with the index
Condition(axisIndex, lo, hi) ==
    [ Format |-> 1, AxisIndex |-> axisIndex,
      FilterRangeMinValue |-> lo, FilterRangeMaxValue |-> hi ]

PoolGSUB ==
    [ FeatureList |-> << "liga", "salt" >>,
      FeatureVariations |->
        << [ ConditionSet |-> << Condition(0, Rat(1, 2), One) >>,
             Version |-> 65536,
             SubstitutionRecord |-> << [ FeatureIndex |-> 0, Feature |-> "liga.bold" ] >> ],
           [ ConditionSet |-> << Condition(1, MinusOne, Rat(-1, 4)) >>,
             Version |-> 65536,
             SubstitutionRecord |-> << [ FeatureIndex |-> 1, Feature |-> "salt.narrow" ] >> ],
           [ ConditionSet |-> << Condition(0, Rat(1, 2), One) >>,
             Version |-> 65536,
             SubstitutionRecord |-> << [ FeatureIndex |-> 1, Feature |-> "salt.bold" ] >> ] >> ]

\* a segment map as the table validator wants it, and one without the
\* anchor at 0
PoolAvar ==
    [ segments |-> [a \in AxisTags |->
        IF a = "wght"
        THEN { <<MinusOne, MinusOne>>, <<Zero, Zero>>, <<Rat(1, 2), Rat(1, 4)>>,
               <<One, One>> }
        ELSE {}] ]
PoolAvarMalformed ==
    [ segments |-> [a \in AxisTags |->
        IF a = "wght"
        THEN { <<MinusOne, MinusOne>>, <<Zero, Rat(1, 4)>>, <<One, One>> }
        ELSE {}] ]

PoolSTAT ==
    [ DesignAxisRecord |-> << [ AxisTag |-> "wght", AxisNameID |-> 256 ],
                              [ AxisTag |-> "wdth", AxisNameID |-> 257 ] >>,
      AxisValue |->
        << [ Format |-> 1, AxisIndex |-> 0, Value |-> Num(400),
             AxisValueRecord |-> <<>>, ValueNameID |-> 258 ],
           [ Format |-> 2, AxisIndex |-> 0, Value |-> Num(800),
             AxisValueRecord |-> <<>>, ValueNameID |-> 259 ],
           [ Format |-> 4, AxisIndex |-> 0, Value |-> Zero,
             AxisValueRecord |-> << [ AxisIndex |-> 0, Value |-> Num(400) ],
                                    [ AxisIndex |-> 1, Value |-> Num(75) ] >>,
             ValueNameID |-> 261 ] >> ]

PoolName == { 1, 2, 256, 257, 258, 259, 260, 261 }

BaseFont ==
    [t \in {"fvar", "glyf", "gvar", "name", "OS/2"} |->
        IF t = "fvar" THEN PoolFvar
        ELSE IF t = "glyf" THEN PoolGlyf
        ELSE IF t = "gvar" THEN PoolGvar
        ELSE IF t = "name" THEN PoolName
        ELSE PoolOS2]

\* the base font and the tables of the list
WithTables(tags) ==
    [t \in (DOMAIN BaseFont) \cup { tags[k] : k \in 1..Len(tags) } |->
        IF t = "cvt " THEN [i \in 1..NumItems |-> Num(10 * i)]
        ELSE IF t = "cvar" THEN PoolCvar
        ELSE IF t = "MVAR" THEN PoolMVAR
        ELSE IF t = "HVAR" THEN PoolHVAR
        ELSE IF t = "VVAR" THEN PoolVVAR
        ELSE IF t = "GDEF" THEN PoolGDEF
        ELSE IF t = "GPOS" THEN PoolGPOS
        ELSE IF t = "GSUB" THEN PoolGSUB
        ELSE IF t = "avar" THEN PoolAvar
        ELSE IF t = "STAT" THEN PoolSTAT
        ELSE IF t = "CFF2" THEN "CFF2"
        ELSE BaseFont[t]]

\* the fonts a call is made on: the base font, the base font with one more
\* variation table, the font with all of them, the font with a malformed
\* avar, the font with an indirect VVAR, and the three fonts the sanity check
\* refuses
FontPool ==
    { BaseFont,
      WithTables(<< "cvt ", "cvar" >>),
      WithTables(<< "MVAR" >>),
      WithTables(<< "HVAR" >>),
      WithTables(<< "VVAR" >>),
      WithTables(<< "GDEF", "GPOS" >>),
      WithTables(<< "GSUB" >>),
      WithTables(<< "avar" >>),
      WithTables(<< "STAT" >>),
      WithTables(<< "cvt ", "cvar", "MVAR", "HVAR", "VVAR", "GDEF", "GPOS",
                    "GSUB", "avar", "STAT" >>),
      SetTable(BaseFont, "avar", PoolAvarMalformed),
      SetTable(BaseFont, "VVAR", PoolVVARIndirect),
      DelTable(BaseFont, "fvar"),
      DelTable(BaseFont, "glyf"),
      WithTables(<< "CFF2" >>) }

\* the user-space limits a caller gives for wght and for wdth
UserWghtLimits ==
    { DefaultSentinel, Pin(Num(600)), Pin(Num(800)),
      Range(Num(400), Num(600)), Range(Num(300), Num(900)),
      RawTuple(Num(400), Num(800)),
      RawTuple(Num(700), Num(500)), RawTuple(Num(300), Num(200)) }
UserWdthLimits ==
    { DefaultSentinel, Pin(Num(75)), Range(Num(75), Num(125)) }

UserLimitMaps ==
    { NoLimits }
    \cup { [a \in {"wght"} |-> l] : l \in UserWghtLimits }
    \cup { [a \in {"wdth"} |-> l] : l \in UserWdthLimits }
    \cup { [a \in {"wdth", "wght"} |-> IF a = "wght" THEN lw ELSE ld] :
             lw \in UserWghtLimits, ld \in UserWdthLimits }
    \cup { [a \in {"opsz"} |-> l] : l \in { DefaultSentinel, Pin(Num(12)) } }

ArgsPool ==
    [ axisLimits : UserLimitMaps, inplace : BOOLEAN, overlap : BOOLEAN ]

\* the statements of the body in program order (1190-1242)
Statements ==
    << "sanityCheck", "deepcopy", "populateAxisDefaults", "normalizeAxisLimits",
       "gvar", "cvar", "MVAR", "HVAR", "VVAR", "OTL", "FeatureVariations", "avar",
       "pruningUnusedNames", "STAT", "fvar", "pruneNames", "finish" >>

\* a plausible slip: fvar rewritten before the style attributes
Statements_FvarBeforeSTAT ==
    << "sanityCheck", "deepcopy", "populateAxisDefaults", "normalizeAxisLimits",
       "gvar", "cvar", "MVAR", "HVAR", "VVAR", "OTL", "FeatureVariations", "avar",
       "pruningUnusedNames", "fvar", "STAT", "pruneNames", "finish" >>

\* the statement after the one in the list
following(statements, statement) ==
    IF IndexOf(statement, statements) = Len(statements) THEN "done"
    ELSE statements[IndexOf(statement, statements) + 1]

stageAfter_FvarBeforeSTAT(statement) == following(Statements_FvarBeforeSTAT, statement)

\* where control goes when the statement returns
stageAfter(statement) == following(Statements, statement)

\* a plausible slip: the copy is made but varfont keeps naming the input
varfontAfterCopy_StillInput(inplace) == 1

\* the object varfont names after 1192-1193: the input (object 1), or the
\* copy (object 2)
varfontAfterCopy(inplace) == IF inplace THEN 1 ELSE 2

\* deepcopy(varfont): a new object with the same contents
deepcopy(heap, id) == [i \in (DOMAIN heap) \cup {2} |-> heap[id]]

Init ==
    /\ TentIdle
    /\ StoreIdle
    /\ IvsIdle
    /\ PinIdle
    /\ GlyphIdle
    /\ \E font \in FontPool :
          /\ fHeap = [i \in {1} |-> font]
          /\ fFont0 = font
    /\ fCur = 1
    /\ fArgs \in ArgsPool
    /\ fOptimizer \in OptimizerChoices
    /\ fLimits = fArgs.axisLimits
    /\ fNorm = NoLimits
    /\ fNames = {}
    /\ fpc = "sanityCheck"
    /\ fErr = "none"
    /\ fTrace = <<>>

\* what no statement of the body changes
Frame ==
    UNCHANGED <<fArgs, fOptimizer, fFont0, tentVars, storeVars, ivsVars, pinVars, glyphVars>>

\* the statement returns, or raises: the exception leaves the function
Outcome(statement, error) ==
    /\ fpc' = IF error = "none" THEN stageAfter(statement) ELSE "raised"
    /\ fErr' = error

\* a statement on the font: the font is written unless the statement raised
\* before it wrote anything; called says that a stage function was called
OnFont(statement, outcome, called) ==
    /\ Outcome(statement, outcome.error)
    /\ fHeap' = IF outcome.written THEN [fHeap EXCEPT ![fCur] = outcome.value]
                ELSE fHeap
    /\ fTrace' = IF called THEN Append(fTrace, statement) ELSE fTrace
    /\ UNCHANGED <<fCur, fLimits, fNorm, fNames>>
    /\ Frame

\* 1190
SanityCheck ==
    /\ fpc = "sanityCheck"
    /\ Outcome("sanityCheck", sanityCheckVariableTables(fHeap[fCur]))
    /\ UNCHANGED <<fHeap, fCur, fLimits, fNorm, fNames, fTrace>>
    /\ Frame

\* 1192-1193
Deepcopy ==
    /\ fpc = "deepcopy"
    /\ fHeap' = IF fArgs.inplace THEN fHeap ELSE deepcopy(fHeap, fCur)
    /\ fCur' = varfontAfterCopy(fArgs.inplace)
    /\ Outcome("deepcopy", "none")
    /\ UNCHANGED <<fLimits, fNorm, fNames, fTrace>>
    /\ Frame

\* 1195
PopulateAxisDefaults ==
    /\ fpc = "populateAxisDefaults"
    /\ \E r \in { populateAxisDefaults(fHeap[fCur], fLimits) } :
          /\ Outcome("populateAxisDefaults", r.error)
          /\ fLimits' = IF r.error = "none" THEN r.value ELSE fLimits
    /\ UNCHANGED <<fHeap, fCur, fNorm, fNames, fTrace>>
    /\ Frame

\* 1197
NormalizeAxisLimits ==
    /\ fpc = "normalizeAxisLimits"
    /\ \E r \in { normalizeAxisLimits(fHeap[fCur], fLimits, TRUE) } :
          /\ Outcome("normalizeAxisLimits", r.error)
          /\ fNorm' = IF r.error = "none" THEN r.value ELSE fNorm
    /\ UNCHANGED <<fHeap, fCur, fLimits, fNames, fTrace>>
    /\ Frame

\* 1201-1202
GvarStage ==
    /\ fpc = "gvar"
    /\ OnFont("gvar", Returned(ifGvar(fHeap[fCur], fNorm)), "gvar" \in DOMAIN fHeap[fCur])

\* 1204-1205
CvarStage ==
    /\ fpc = "cvar"
    /\ OnFont("cvar", Returned(ifCvar(fHeap[fCur], fNorm)), "cvar" \in DOMAIN fHeap[fCur])

\* 1207-1208
MVARStage ==
    /\ fpc = "MVAR"
    /\ OnFont("MVAR", Returned(ifMVAR(fHeap[fCur], fNorm, fOptimizer)),
              "MVAR" \in DOMAIN fHeap[fCur])

\* 1210-1211
HVARStage ==
    /\ fpc = "HVAR"
    /\ OnFont("HVAR", Returned(ifHVAR(fHeap[fCur], fNorm, fOptimizer)),
              "HVAR" \in DOMAIN fHeap[fCur])

\* 1213-1214
VVARStage ==
    /\ fpc = "VVAR"
    /\ OnFont("VVAR", Returned(ifVVAR(fHeap[fCur], fNorm, fOptimizer)),
              "VVAR" \in DOMAIN fHeap[fCur])

\* 1216
OTLStage ==
    /\ fpc = "OTL"
    /\ OnFont("OTL", Returned(instantiateOTL(fHeap[fCur], fNorm, fOptimizer)), TRUE)

\* 1218
FeatureVariationsStage ==
    /\ fpc = "FeatureVariations"
    /\ OnFont("FeatureVariations",
              Returned(instantiateFeatureVariations(fHeap[fCur], fNorm)), TRUE)

\* 1220-1221
AvarStage ==
    /\ fpc = "avar"
    /\ OnFont("avar", ifAvar(fHeap[fCur], fLimits), "avar" \in DOMAIN fHeap[fCur])

\* 1223 and pruningUnusedNames up to its yield (1067)
EnterPruningUnusedNames ==
    /\ fpc = "pruningUnusedNames"
    /\ fNames' = getVariationNameIDs(fHeap[fCur])
    /\ Outcome("pruningUnusedNames", "none")
    /\ UNCHANGED <<fHeap, fCur, fLimits, fNorm, fTrace>>
    /\ Frame

\* 1224-1225
STATStage ==
    /\ fpc = "STAT"
    /\ OnFont("STAT", ifSTAT(fHeap[fCur], fLimits), "STAT" \in DOMAIN fHeap[fCur])

\* 1227
FvarStage ==
    /\ fpc = "fvar"
    /\ OnFont("fvar", instantiateFvar(fHeap[fCur], fLimits), TRUE)

\* pruningUnusedNames after its yield (1069-1074)
PruneNames ==
    /\ fpc = "pruneNames"
    /\ OnFont("pruneNames", Returned(prunedNames(fHeap[fCur], fNames)), FALSE)

\* 1229-1242; the font returned is the object varfont names
Finish ==
    /\ fpc = "finish"
    /\ OnFont("finish",
              Returned(finished(fHeap[fCur], fLimits, fArgs.overlap)), FALSE)

Next ==
    \/ SanityCheck
    \/ Deepcopy
    \/ PopulateAxisDefaults
    \/ NormalizeAxisLimits
    \/ GvarStage
    \/ CvarStage
    \/ MVARStage
    \/ HVARStage
    \/ VVARStage
    \/ OTLStage
    \/ FeatureVariationsStage
    \/ AvarStage
    \/ EnterPruningUnusedNames
    \/ STATStage
    \/ FvarStage
    \/ PruneNames
    \/ Finish

Spec == Init /\ [][Next]_vars

-----------------------------------------------------------------------------
(* C4: the default sentinel.                                               *)

\* the axes the caller limits with None
SentinelAxes == { a \in DOMAIN fArgs.axisLimits : fArgs.axisLimits[a].kind = "default" }

\* the run is one the claim is about: some axis of the font is limited with
\* None, and None is given for axes of the font only
SentinelRun ==
    /\ "fvar" \in DOMAIN fFont0
    /\ SentinelAxes # {}
    /\ \A a \in SentinelAxes : InSeq(a, axisTagsOf(fFont0["fvar"].axes))

\* the caller's limits with the default of the axis written out for None
ExplicitDefaults ==
    [a \in DOMAIN fArgs.axisLimits |->
        IF a \in SentinelAxes
        THEN Pin(axisByTag(fFont0["fvar"].axes, a).defaultValue)
        ELSE fArgs.axisLimits[a]]

\* what the call with the defaults written out gives
ExplicitRun ==
    instantiateVariableFont(fFont0, ExplicitDefaults, fArgs.overlap, fOptimizer)

\* the default values of a font: the coordinates of the glyphs, the control
\* values, the metrics MVAR varies, the caret and anchor coordinates
DefaultValuesOf(font) ==
    [t \in (DOMAIN font) \cap {"glyf", "cvt ", "OS/2", "GDEF", "GPOS"} |->
        IF t = "glyf" THEN font[t].coordinates
        ELSE IF t = "OS/2" THEN << font[t].sxHeight, font[t].sCapHeight >>
        ELSE IF t = "GDEF"
        THEN [k \in 1..Len(font[t].LigCaretList) |-> font[t].LigCaretList[k].Coordinate]
        ELSE IF t = "GPOS"
        THEN [k \in 1..Len(font[t].Anchor) |-> font[t].Anchor[k].Coordinate]
        ELSE font[t]]

\* every limit of the call is None
OnlySentinels == SentinelAxes = DOMAIN fArgs.axisLimits

\* the font's avar table, if it has one, maps the default of every axis
\* limited with None to the normalized 0
AvarKeepsDefault ==
    \A a \in SentinelAxes :
        piecewiseLinearMap(Zero, avarMappingFor(fFont0, a, TRUE)) = Zero

\* None is resolved to the default before normalization; the run ends as
\* the run with the defaults written out ends; the axes are dropped
SentinelAsDefault ==
    SentinelRun =>
        /\ fpc = "normalizeAxisLimits" => fLimits = ExplicitDefaults
        /\ fpc = "raised" => ExplicitRun.error = fErr
        /\ fpc = "done" =>
              /\ ExplicitRun.error = "none"
              /\ fHeap[fCur] = ExplicitRun.value
              /\ \A a \in SentinelAxes :
                    \/ "fvar" \notin DOMAIN fHeap[fCur]
                    \/ ~InSeq(a, axisTagsOf(fHeap[fCur]["fvar"].axes))

\* the default values are those of the input when every limit is None
DefaultValuesKept ==
    \A t \in DOMAIN DefaultValuesOf(fHeap[fCur]) :
        DefaultValuesOf(fHeap[fCur])[t] = DefaultValuesOf(fFont0)[t]

-----------------------------------------------------------------------------
(* C5: null instancing.                                                    *)

\* C5 as stated: with an empty limits map the font returned is the input
\* font: axes, instances, variation tables, tents, deltas, regions, rows,
\* VarIdx references and default values are all as they were.
C5_NullInstancingIsIdentity ==
    (fpc = "done" /\ fArgs.axisLimits = NoLimits) => fHeap[fCur] = fFont0

\* the run with the empty limits map on the font with a malformed avar
\* segment map has ended: the map is gone, every other table is as it was
C5_MalformedAvarMapDropped ==
    /\ fpc = "done"
    /\ fArgs.axisLimits = NoLimits
    /\ fFont0 = SetTable(BaseFont, "avar", PoolAvarMalformed)
    /\ "wght" \notin DOMAIN fHeap[fCur]["avar"].segments
    /\ \A t \in (DOMAIN fFont0) \ {"avar"} : fHeap[fCur][t] = fFont0[t]

-----------------------------------------------------------------------------
(* C8: the order of the stages.                                            *)

StageOrder ==
    << "gvar", "cvar", "MVAR", "HVAR", "VVAR", "OTL", "FeatureVariations", "avar",
       "STAT", "fvar" >>

\* the stages that run whatever tables the font has
UnconditionalStages == { "OTL", "FeatureVariations", "fvar" }

\* the calls of the trace are in the order of the list
InOrder(trace, order) ==
    \A i, j \in 1..Len(trace) :
        i < j => IndexOf(trace[i], order) < IndexOf(trace[j], order)

\* C8: the stage functions are called in the order gvar, cvar, MVAR, HVAR,
\* VVAR, OTL, feature variations, avar, STAT, fvar; a run that ends has
\* called the stage of every table the font has; and until the fvar stage is
\* called the font's fvar table is the one of the input.
C8_FixedStageOrder ==
    /\ InOrder(fTrace, StageOrder)
    /\ fpc = "done" =>
          \A k \in 1..Len(StageOrder) :
              InSeq(StageOrder[k], fTrace)
                <=> (StageOrder[k] \in UnconditionalStages
                     \/ StageOrder[k] \in DOMAIN fFont0)
    /\ ("fvar" \in DOMAIN fFont0 /\ ~InSeq("fvar", fTrace)) =>
          /\ "fvar" \in DOMAIN fHeap[fCur]
          /\ fHeap[fCur]["fvar"] = fFont0["fvar"]

\* C8 witness: a run through all ten stages that ends with fvar deleted
C8_Witness ==
    /\ fpc = "done"
    /\ fTrace = StageOrder
    /\ "fvar" \notin DOMAIN fHeap[fCur]
    /\ "STAT" \in DOMAIN fHeap[fCur]

-----------------------------------------------------------------------------
(* C9: input validation.                                                   *)

\* the exceptions the validation of the input raises
ValidationErrors == { "ValueError", "KeyError", "TypeError", "NotImplementedError" }

\* C9 as stated: when the run raises a validation error no stage has been
\* called and the font is as it was before the call.
C9_ValidationFailsAtomically ==
    (fpc = "raised" /\ fErr \in ValidationErrors) =>
        /\ fTrace = <<>>
        /\ fHeap[fCur] = fFont0

\* the in-place run with the tuple (300, 200) for wght has raised ValueError
\* with the input font's gvar already transformed
C9_RaisedAfterTransforming ==
    /\ fpc = "raised"
    /\ fErr = "ValueError"
    /\ fArgs.inplace
    /\ fFont0 = BaseFont
    /\ fArgs.axisLimits = [a \in {"wght"} |-> RawTuple(Num(300), Num(200))]
    /\ InSeq("gvar", fTrace)
    /\ "B" \notin DOMAIN fHeap[1]["gvar"].variations
    /\ "B" \in DOMAIN fFont0["gvar"].variations

-----------------------------------------------------------------------------
(* C10: the input font of a run that is not in place.                      *)

-----------------------------------------------------------------------------
(* SpecPin: pinTupleVariationAxes applied once to a list of one or two     *)
(* TupleVariations, for every tent and location of the pools.              *)

PinValues == { Rat(k, 4) : k \in {-4, -2, -1, 0, 1, 2, 4} }

\* the tents a font can hold on one axis: in order and on one side of zero,
\* and the tent (-1, 0, +1) of an axis that does not participate
PinTents ==
    { t \in PinValues \X PinValues \X PinValues : OneSided(t) }
    \cup { <<MinusOne, Zero, One>> }

PinCoords == { Rat(k, 8) : k \in -8..8 }

\* the tent on wdth that goes with the wght tent of the first variation
PinWdthTents == { <<Zero, One, One>>, <<MinusOne, MinusOne, Zero>> }

PinFirstVariations ==
    { TupleVariation([a \in {"wght"} |-> t], PoolDeltas(2)) : t \in PinTents }
    \cup { TupleVariation([a \in {"wdth", "wght"} |-> IF a = "wght" THEN t ELSE d],
                          PoolDeltas(2)) : t \in PinTents, d \in PinWdthTents }

PinSecondVariations ==
    { TupleVariation([a \in {"wdth"} |-> <<Zero, Rat(1, 2), One>>], PoolDeltas(4)),
      TupleVariation([a \in {"wdth", "wght"} |-> <<Zero, Rat(1, 2), One>>],
                     PoolDeltas(4)) }

PinWdthCoords == { Rat(1, 4), Rat(-1, 2) }

PinLocations ==
    { [a \in {"wght"} |-> c] : c \in PinCoords }
    \cup { [a \in {"wdth"} |-> d] : d \in PinWdthCoords }
    \cup { [a \in {"wdth", "wght"} |-> IF a = "wght" THEN c ELSE d] :
             c \in PinCoords, d \in PinWdthCoords }

PinInit ==
    /\ TentIdle
    /\ StoreIdle
    /\ IvsIdle
    /\ FontIdle
    /\ GlyphIdle
    /\ pVariations \in
          { <<v>> : v \in PinFirstVariations }
          \cup { <<v, w>> : v \in PinFirstVariations, w \in PinSecondVariations }
    /\ pLocation \in PinLocations
    /\ pOut = <<>>
    /\ ppc = "call"

\* newVariations = pinTupleVariationAxes(variations, pinnedLocation) (163-164)
PinTupleVariationAxes ==
    /\ ppc = "call"
    /\ pOut' = pinTupleVariationAxes(pVariations, pLocation)
    /\ ppc' = "done"
    /\ UNCHANGED <<pVariations, pLocation, tentVars, storeVars, ivsVars, fontVars,
                   glyphVars>>

PinNext == PinTupleVariationAxes

SpecPin == PinInit /\ [][PinNext]_vars

-----------------------------------------------------------------------------
(* C12: pinning a set of axes at a location.                               *)

\* the support of a tent at c: 1 for a tent that does not participate and at
\* the peak, 0 at and outside the bounds, linear in between
SupportAt(c, tent) ==
    LET l == tent[1]
        p == tent[2]
        u == tent[3]
    IN  IF p = Zero \/ c = p THEN One
        ELSE IF RLe(c, l) \/ RLe(u, c) THEN Zero
        ELSE IF RLt(c, p) THEN RDiv(RSub(c, l), RSub(p, l))
        ELSE RDiv(RSub(u, c), RSub(u, p))

RECURSIVE ProductOfSupports(_, _)
\* the product over the pinned axes of the supports of var's tents
ProductOfSupports(var, axes) ==
    IF axes = {} THEN One
    ELSE LET a == CHOOSE x \in axes : TRUE
         IN  RMul(SupportAt(pLocation[a], GetAxis(var, a)),
                  ProductOfSupports(var, axes \ {a}))

\* the variations with some influence at the location
Influencing ==
    { i \in 1..Len(pVariations) :
        ProductOfSupports(pVariations[i], DOMAIN pLocation) # Zero }

\* C12: pinTupleVariationAxes returns, in their order, the variations whose
\* product of supports over the pinned axes is not 0; each has its payload
\* multiplied by that product, no tent on a pinned axis, and its tents on the
\* other axes as they were.
C12_PinnedByProduct ==
    ppc = "done" =>
        /\ Len(pOut) = Cardinality(Influencing)
        /\ \A i \in Influencing :
              LET k == Cardinality({ j \in Influencing : j <= i })
                  var == pVariations[i]
                  s == ProductOfSupports(var, DOMAIN pLocation)
              IN  /\ pOut[k].axes =
                        [a \in (DOMAIN var.axes) \ (DOMAIN pLocation) |-> var.axes[a]]
                  /\ pOut[k].coordinates =
                        [x \in 1..Len(var.coordinates) |-> RMul(var.coordinates[x], s)]

\* C12 witness: two axes pinned; the first variation is discarded (no
\* influence on one of them), the second is kept without tents and with its
\* payload scaled by a product that is neither of its two factors
C12_Witness ==
    /\ ppc = "done"
    /\ DOMAIN pLocation = {"wdth", "wght"}
    /\ Len(pVariations) = 2
    /\ Influencing = {2}
    /\ DOMAIN pVariations[2].axes = {"wdth", "wght"}
    /\ Len(pOut) = 1
    /\ DOMAIN pOut[1].axes = {}
    /\ pOut[1].coordinates = [x \in 1..NumItems |->
                                 RMul(pVariations[2].coordinates[x], Rat(1, 4))]

-----------------------------------------------------------------------------
(* C19: the support scalar of one tent.                                    *)

\* one variation, with a tent on the one axis that is pinned
OneTentPinned ==
    /\ ppc = "done"
    /\ Len(pVariations) = 1
    /\ Cardinality(DOMAIN pLocation) = 1
    /\ DOMAIN pLocation \subseteq DOMAIN pVariations[1].axes

PinnedAxis == CHOOSE a \in DOMAIN pLocation : TRUE

\* the scalar as the statement gives it
StatedScalar(c, tent) ==
    LET l == tent[1]
        p == tent[2]
        u == tent[3]
    IN  IF RLt(c, l) \/ RLt(u, c) \/ p = Zero THEN Zero
        ELSE IF \/ (RLt(Zero, p) /\ RLe(Zero, c) /\ RLe(c, p))
                \/ (RLt(p, Zero) /\ RLe(p, c) /\ RLe(c, Zero))
        THEN RDiv(c, p)
        ELSE IF RLe(Zero, p) /\ RLt(p, c) /\ RLe(c, u)
        THEN RDiv(RSub(u, c), RSub(u, p))
        ELSE RDiv(RSub(l, c), RSub(l, p))

\* what pinning the one variation gives when its scalar is s
PinnedWith(s) ==
    IF s = Zero THEN <<>>
    ELSE << scaleDeltas(PopAxes(pVariations[1], DOMAIN pLocation), s) >>

-----------------------------------------------------------------------------
(* C20: the split case of range-limiting.                                  *)

\* the tent of the variation handed to limitTupleVariationAxisRange
OriginalTent == tVar.axes["wght"]

NegativeSide == RLt(OriginalTent[1], Zero)

LimitOfRange == IF NegativeSide THEN tRange.minimum ELSE tRange.maximum

\* the rebased tent (L, P, U), lower and upper swapped on the negative side
RebasedL ==
    RDiv(IF NegativeSide THEN OriginalTent[3] ELSE OriginalTent[1], LimitOfRange)
RebasedP == RDiv(OriginalTent[2], LimitOfRange)
RebasedU ==
    RDiv(IF NegativeSide THEN OriginalTent[1] ELSE OriginalTent[3], LimitOfRange)

\* a one-sided tent with a peak, limited to a range that does not end at 0
\* on its side, whose rebased tent has L < 1, P < 1 and U > 2
SplitCase ==
    /\ tpc = "done"
    /\ OneSided(OriginalTent)
    /\ OriginalTent[2] # Zero
    /\ LimitOfRange # Zero
    /\ RLt(RebasedL, One)
    /\ RLt(RebasedP, One)
    /\ RLt(Two, RebasedU)

\* s1 - s2: the support of the original tent at the limit, less 1/(2 - P)
SplitScalar ==
    RSub(SupportAt(LimitOfRange, OriginalTent), RDiv(One, RSub(Two, RebasedP)))

ScaledPayload(scalar) ==
    [x \in 1..Len(tVar.coordinates) |-> RMul(tVar.coordinates[x], scalar)]

\* the bounds (lower, peak, upper) given for the positive side, negated and
\* mirrored on the negative side
Mirrored(bounds) ==
    IF NegativeSide THEN <<RNeg(bounds[3]), RNeg(bounds[2]), RNeg(bounds[1])>>
    ELSE bounds

\* C20 as stated: in the split case two variations are emitted: the original
\* tent with bounds (L, P, largest 2.14 value) and its deltas scaled by
\* s1 - s2, and a second tent with bounds (P, 1, 1); the bounds are negated
\* and mirrored for a tent on the negative side.
C20_SplitScalesOriginal ==
    SplitCase =>
        /\ Len(tOut) = 2
        /\ tOut[1].axes["wght"] = Mirrored(<<RebasedL, RebasedP, MAX_F2DOT14>>)
        /\ tOut[1].coordinates = ScaledPayload(SplitScalar)
        /\ tOut[2].axes["wght"] = Mirrored(<<RebasedP, One, One>>)

\* C20 amended: in the split case two variations are emitted: the original
\* tent with its deltas unchanged and bounds (L, P, largest 2.14 value), or
\* (-2, -P, -L) on the negative side, and a second tent with bounds (P, 1, 1),
\* or (-1, -1, -P), that holds the original deltas scaled by s1 - s2.
C20_SplitScalesSecond ==
    SplitCase =>
        /\ Len(tOut) = 2
        /\ tOut[1].axes["wght"] =
              IF NegativeSide THEN <<RNeg(Two), RNeg(RebasedP), RNeg(RebasedL)>>
              ELSE <<RebasedL, RebasedP, MAX_F2DOT14>>
        /\ tOut[1].coordinates = tVar.coordinates
        /\ tOut[2].axes["wght"] = Mirrored(<<RebasedP, One, One>>)
        /\ tOut[2].coordinates = ScaledPayload(SplitScalar)

\* C20 witness: a split on the negative side, the second tent's deltas
\* scaled by a factor that is neither 0 nor 1
C20_Witness ==
    /\ SplitCase
    /\ NegativeSide
    /\ Len(tOut) = 2
    /\ tOut[1].axes["wght"][1] = RNeg(Two)
    /\ tOut[2].coordinates # tVar.coordinates
    /\ tOut[2].coordinates[1] # Zero

-----------------------------------------------------------------------------
(* C13: the axis list of fvar after the run.                               *)

\* the axes the caller pinned, None standing for a pin at the default
PinnedByCaller == { a \in DOMAIN fLimits : fLimits[a].kind \in {"pin", "default"} }

\* the positions, in the input's axis list, of the axes that are not pinned
UnpinnedPositions ==
    { k \in 1..Len(fFont0["fvar"].axes) :
        fFont0["fvar"].axes[k].axisTag \notin PinnedByCaller }

\* C13: when the run has ended, fvar is absent exactly when every axis of
\* the font was pinned; otherwise its axis list holds the axes that were not
\* pinned, in their original order, and an axis that was neither pinned nor
\* range-limited is as it was.
C13_FvarAxesMinusPinned ==
    fpc = "done" =>
        /\ "fvar" \notin DOMAIN fHeap[fCur] <=> UnpinnedPositions = {}
        /\ "fvar" \in DOMAIN fHeap[fCur] =>
              /\ Len(fHeap[fCur]["fvar"].axes) = Cardinality(UnpinnedPositions)
              /\ \A i \in UnpinnedPositions :
                    LET k == Cardinality({ j \in UnpinnedPositions : j <= i })
                        axis == fFont0["fvar"].axes[i]
                    IN  /\ fHeap[fCur]["fvar"].axes[k].axisTag = axis.axisTag
                        /\ axis.axisTag \notin DOMAIN fLimits =>
                              fHeap[fCur]["fvar"].axes[k] = axis

\* C13 witness: the first axis pinned, the second left alone: the axis list
\* is the second axis, as it was
C13_Witness ==
    /\ fpc = "done"
    /\ DOMAIN fLimits = {"wght"}
    /\ PinnedByCaller = {"wght"}
    /\ Len(fFont0["fvar"].axes) = 2
    /\ fFont0["fvar"].axes[1].axisTag = "wght"
    /\ "fvar" \in DOMAIN fHeap[fCur]
    /\ fHeap[fCur]["fvar"].axes = << fFont0["fvar"].axes[2] >>

-----------------------------------------------------------------------------
(* C18: the named instances of fvar after instantiateFvar.                 *)

\* instantiateFvar has returned and has left an fvar table
FvarInstantiated ==
    /\ InSeq("fvar", fTrace)
    /\ fErr = "none"
    /\ "fvar" \in DOMAIN fHeap[fCur]

\* the axes the caller limited to a range
RangedByCaller == (DOMAIN fLimits) \ PinnedByCaller

\* the instance has the pinned value on every pinned axis and a value within
\* the range on every range-limited axis
MatchesLimits(instance) ==
    /\ \A a \in PinnedByCaller : instance.coordinates[a] = fLimits[a].minimum
    /\ \A a \in RangedByCaller :
          /\ RLe(fLimits[a].minimum, instance.coordinates[a])
          /\ RLe(instance.coordinates[a], fLimits[a].maximum)

MatchingInstances ==
    { i \in 1..Len(fFont0["fvar"].instances) :
        MatchesLimits(fFont0["fvar"].instances[i]) }

\* C18: after instantiateFvar on a partial instance the named instances are
\* those of the input that have the pinned value on every pinned axis and a
\* value within [lo, hi] on every range-limited axis, in their original
\* order, each without coordinates for the pinned axes and with its other
\* coordinates as they were.
C18_NamedInstancesFiltered ==
    FvarInstantiated =>
        /\ Len(fHeap[fCur]["fvar"].instances) = Cardinality(MatchingInstances)
        /\ \A i \in MatchingInstances :
              LET k == Cardinality({ j \in MatchingInstances : j <= i })
                  instance == fFont0["fvar"].instances[i]
              IN  /\ fHeap[fCur]["fvar"].instances[k].subfamilyNameID
                        = instance.subfamilyNameID
                  /\ fHeap[fCur]["fvar"].instances[k].coordinates
                        = [a \in (DOMAIN instance.coordinates) \ PinnedByCaller |->
                              instance.coordinates[a]]

\* C18 witness: wdth pinned at 75 and wght limited to 400..600: of the three
\* instances the one at (400, 75) is left, with its wght coordinate only
C18_Witness ==
    /\ FvarInstantiated
    /\ PinnedByCaller = {"wdth"}
    /\ RangedByCaller = {"wght"}
    /\ Len(fFont0["fvar"].instances) = 3
    /\ MatchingInstances = {3}
    /\ Len(fHeap[fCur]["fvar"].instances) = 1
    /\ DOMAIN fHeap[fCur]["fvar"].instances[1].coordinates = {"wght"}

-----------------------------------------------------------------------------
(* C16: malformed segment maps of avar.                                    *)

\* instantiateAvar has returned and has left an avar table
AvarRewritten ==
    /\ InSeq("avar", fTrace)
    /\ fErr = "none"
    /\ "avar" \in DOMAIN fHeap[fCur]

\* the axes of the input's avar table that are not pinned and whose segment
\* map fails the validation
MalformedAxes ==
    { a \in (DOMAIN fFont0["avar"].segments) \ PinnedByCaller :
        ~isValidAvarSegmentMap(fFont0["avar"].segments[a]) }

\* C16 as stated: when instantiateAvar rewrites the table, the segment map of
\* a non-pinned axis that fails the validation is in the resulting table,
\* identical to the input map.
C16_MalformedMapPreserved ==
    AvarRewritten =>
        \A a \in MalformedAxes :
            /\ a \in DOMAIN fHeap[fCur]["avar"].segments
            /\ fHeap[fCur]["avar"].segments[a] = fFont0["avar"].segments[a]

\* the run that pins wdth on the font with a malformed map for wght has
\* passed instantiateAvar: the table is still there, without a map for wght
C16_MalformedMapGone ==
    /\ AvarRewritten
    /\ PinnedByCaller = {"wdth"}
    /\ DOMAIN fLimits = {"wdth"}
    /\ MalformedAxes = {"wght"}
    /\ "wght" \notin DOMAIN fHeap[fCur]["avar"].segments

-----------------------------------------------------------------------------
(* C14, C15: the feature variations of GSUB after the stage.               *)

\* instantiateFeatureVariations has run on a font whose GSUB has feature
\* variations
FeatureVariationsInstantiated ==
    /\ InSeq("FeatureVariations", fTrace)
    /\ "GSUB" \in DOMAIN fFont0
    /\ "FeatureVariations" \in DOMAIN fFont0["GSUB"]

InputRecords == fFont0["GSUB"].FeatureVariations

\* the records GSUB has now
OutputRecords ==
    IF "FeatureVariations" \in DOMAIN fHeap[fCur]["GSUB"]
    THEN fHeap[fCur]["GSUB"].FeatureVariations
    ELSE <<>>

\* the axis a condition of an input record is on
AxisOfCondition(condition) == fFont0["fvar"].axes[condition.AxisIndex + 1].axisTag

\* the pinned coordinate of the axis satisfies the condition
SatisfiedByPin(condition) ==
    /\ AxisOfCondition(condition) \in PinnedAxes(fNorm)
    /\ RLe(condition.FilterRangeMinValue, fNorm[AxisOfCondition(condition)].minimum)
    /\ RLe(fNorm[AxisOfCondition(condition)].minimum, condition.FilterRangeMaxValue)

\* every condition of the record is on a pinned axis and satisfied
FullySatisfied(record) ==
    \A c \in 1..Len(record.ConditionSet) : SatisfiedByPin(record.ConditionSet[c])

\* some condition of the record is on a pinned axis and not satisfied
FailsPin(record) ==
    \E c \in 1..Len(record.ConditionSet) :
        /\ AxisOfCondition(record.ConditionSet[c]) \in PinnedAxes(fNorm)
        /\ ~SatisfiedByPin(record.ConditionSet[c])

\* the input record is still in the list (its substitutions tell it apart)
StillListed(record) ==
    \E k \in 1..Len(OutputRecords) :
        OutputRecords[k].SubstitutionRecord = record.SubstitutionRecord

\* the input records that are fully satisfied
SatisfiedRecords ==
    { i \in 1..Len(InputRecords) : FullySatisfied(InputRecords[i]) }

\* the feature list with the substitutions of the first fully satisfied
\* record, if there is one
FeatureListExpected ==
    IF SatisfiedRecords = {} THEN fFont0["GSUB"].FeatureList
    ELSE LET first == CHOOSE i \in SatisfiedRecords :
                          \A j \in SatisfiedRecords : i <= j
         IN  applySubstitutions(fFont0["GSUB"].FeatureList,
                                InputRecords[first].SubstitutionRecord, 1)

\* C14: a record all of whose conditions are on pinned axes and satisfied is
\* removed from the list; a record with a condition on a pinned axis that is
\* not satisfied is removed; and the feature list is the input's with the
\* substitutions of the first fully satisfied record, and of no other record,
\* written into it.
C14_AppliedOnceFromFirstSatisfied ==
    FeatureVariationsInstantiated =>
        /\ \A i \in 1..Len(InputRecords) :
              (FullySatisfied(InputRecords[i]) \/ FailsPin(InputRecords[i]))
                  => ~StillListed(InputRecords[i])
        /\ fHeap[fCur]["GSUB"].FeatureList = FeatureListExpected

\* C14 witness: wght pinned where two records are fully satisfied: both are
\* gone, the first one's substitution is in the feature list, the other's is
\* not, and the record on wdth is still listed
C14_Witness ==
    /\ FeatureVariationsInstantiated
    /\ SatisfiedRecords = {1, 3}
    /\ fHeap[fCur]["GSUB"].FeatureList = << "liga.bold", "salt" >>
    /\ Len(OutputRecords) = 1
    /\ StillListed(InputRecords[2])

\* the axes limited to a range, in normalized values
RangedAxes == (DOMAIN fNorm) \ PinnedAxes(fNorm)

\* the (min, max) the condition of an input record is to have: rescaled into
\* the new range of its axis when the axis is range-limited, its own otherwise
ConditionExpected(condition) ==
    IF condition.Format = 1 /\ AxisOfCondition(condition) \in RangedAxes
    THEN << limitedConditionValue(condition.FilterRangeMinValue,
                                  fNorm[AxisOfCondition(condition)]),
            limitedConditionValue(condition.FilterRangeMaxValue,
                                  fNorm[AxisOfCondition(condition)]) >>
    ELSE << condition.FilterRangeMinValue, condition.FilterRangeMaxValue >>

\* the conditions of the input record that are not on pinned axes
ConditionsLeft(record) ==
    SelectSeq(record.ConditionSet,
              LAMBDA c : AxisOfCondition(c) \notin PinnedAxes(fNorm))

\* a condition of the record is on a range-limited axis and lies outside
\* the new range
OutsideRange(record) ==
    \E c \in 1..Len(record.ConditionSet) :
        /\ AxisOfCondition(record.ConditionSet[c]) \in RangedAxes
        /\ conditionOutOfRange(record.ConditionSet[c],
                               fNorm[AxisOfCondition(record.ConditionSet[c])])

\* C15 as stated: whatever the limits, every record kept has the (min, max)
\* of each condition on a range-limited axis rescaled into the new range of
\* that axis and the (min, max) of its other conditions unchanged, and a
\* record with a condition outside the new range of its axis is dropped.
C15_ConditionsRescaledOnOwnAxis ==
    FeatureVariationsInstantiated =>
        \A i \in 1..Len(InputRecords) :
            /\ OutsideRange(InputRecords[i]) => ~StillListed(InputRecords[i])
            /\ \A k \in 1..Len(OutputRecords) :
                  OutputRecords[k].SubstitutionRecord
                      = InputRecords[i].SubstitutionRecord
                  => /\ Len(OutputRecords[k].ConditionSet)
                          = Len(ConditionsLeft(InputRecords[i]))
                     /\ \A c \in 1..Len(OutputRecords[k].ConditionSet) :
                           << OutputRecords[k].ConditionSet[c].FilterRangeMinValue,
                              OutputRecords[k].ConditionSet[c].FilterRangeMaxValue >>
                             = ConditionExpected(ConditionsLeft(InputRecords[i])[c])

\* wght, the first axis, is pinned and wdth is range-limited: the record on
\* wdth is kept with the (min, max) it had, not rescaled into the new range
C15_ConditionNotRescaled ==
    /\ FeatureVariationsInstantiated
    /\ PinnedAxes(fNorm) = {"wght"}
    /\ RangedAxes = {"wdth"}
    /\ fNorm["wdth"].minimum = Rat(-1, 2)
    /\ fNorm["wdth"].maximum = Rat(1, 2)
    /\ InputRecords[2].ConditionSet = << Condition(1, MinusOne, Rat(-1, 4)) >>
    /\ \E k \in 1..Len(OutputRecords) :
          /\ OutputRecords[k].SubstitutionRecord = InputRecords[2].SubstitutionRecord
          /\ OutputRecords[k].ConditionSet = << Condition(0, MinusOne, Rat(-1, 4)) >>

-----------------------------------------------------------------------------
(* C17: the VariationIndex values of HVAR and VVAR in a partial instance.  *)

AdvanceTables == { HVAR_FIELDS, VVAR_FIELDS }

\* the stage of the table has run on a font that has it, with limits that
\* do not pin every axis
PartiallyInstantiated(tableFields) ==
    /\ InSeq(tableFields.tableTag, fTrace)
    /\ tableFields.tableTag \in DOMAIN fFont0
    /\ ~allAxesPinned(fFont0["fvar"].axes, fNorm)

\* the store of the input table with its deltas transformed
TransformedStore(tableFields) ==
    instantiateItemVariationStore(fFont0[tableFields.tableTag].VarStore,
        axisTagsOf(fFont0["fvar"].axes), fNorm).store

\* the row a VariationIndex refers to: the regions of its subtable and the
\* deltas of the row
RowAt(store, varIdx) ==
    LET data == store.VarData[(varIdx \div 65536) + 1]
    IN  [ regions |-> [j \in 1..Len(data.VarRegionIndex) |->
                          store.Region[data.VarRegionIndex[j]]],
          deltas |-> data.Item[(varIdx % 65536) + 1] ]

\* the fields of the table that hold a glyph-index mapping
MappingFields(tableFields) ==
    (DOMAIN fFont0[tableFields.tableTag]) \ {"VarStore"}

\* C17: in a partial instance HVAR / VVAR is kept.  With the direct mapping
\* for the advances the store is the transformed store, not re-optimized,
\* and every mapping is as it was; with an indirect mapping every entry of
\* every mapping the table has refers, in the new store, to the row that
\* holds the transformed deltas of the row it referred to.
C17_VariationIndexValid ==
    \A tableFields \in AdvanceTables :
        PartiallyInstantiated(tableFields) =>
            /\ tableFields.tableTag \in DOMAIN fHeap[fCur]
            /\ LET before == fFont0[tableFields.tableTag]
                   after == fHeap[fCur][tableFields.tableTag]
                   store == TransformedStore(tableFields)
               IN  /\ DOMAIN after = DOMAIN before
                   /\ before[tableFields.advMapping] = <<>> =>
                         /\ after.VarStore = store
                         /\ \A f \in MappingFields(tableFields) : after[f] = before[f]
                   /\ \A f \in MappingFields(tableFields) :
                         /\ Len(after[f]) = Len(before[f])
                         /\ \A k \in 1..Len(before[f]) :
                               RowAt(after.VarStore, after[f][k])
                                   = RowAt(store, before[f][k])

\* C17 witness: VVAR with indirect mappings in a run that pins one axis; the
\* optimizer has moved the rows and the vertical-origin mapping has changed
C17_Witness ==
    /\ PartiallyInstantiated(VVAR_FIELDS)
    /\ PinnedAxes(fNorm) = {"wght"}
    /\ fFont0["VVAR"].AdvHeightMap # <<>>
    /\ fFont0["VVAR"].VOrgMap # <<>>
    /\ fHeap[fCur]["VVAR"].VOrgMap # fFont0["VVAR"].VOrgMap
    /\ fHeap[fCur]["VVAR"].VarStore # TransformedStore(VVAR_FIELDS)

-----------------------------------------------------------------------------
(* SpecFrame: limitTupleVariationAxisRange on axis wght applied to one     *)
(* TupleVariation that may or may not have a tent on wght (in order or     *)
(* not, on one side of the default or across it) and on wdth.              *)

FrameValues == { Rat(k, 8) : k \in {-8, -4, -2, 0, 2, 4, 8} }

\* every triple, also those with lower > peak or peak > upper (228-232)
FrameTents == FrameValues \X FrameValues \X FrameValues

FrameOtherTents == { <<Zero, One, One>>, <<MinusOne, MinusOne, Zero>> }

\* the axes maps of the variations: each axis absent or with a tent
FrameAxes ==
    { [a \in {"wght"} |-> t] : t \in FrameTents }
    \cup { [a \in {"wdth"} |-> o] : o \in FrameOtherTents }
    \cup { [a \in AxisTags |-> IF a = "wght" THEN t ELSE o] :
              t \in FrameTents, o \in FrameOtherTents }
    \cup { NoAxes }

FrameInit ==
    /\ StoreIdle
    /\ IvsIdle
    /\ FontIdle
    /\ PinIdle
    /\ GlyphIdle
    /\ tVar \in { TupleVariation(axes, << Num(6) >>) : axes \in FrameAxes }
    /\ tRange \in NormalizedRanges
    /\ tOut = <<>>
    /\ tpc = "call"

SpecFrame == FrameInit /\ [][TentNext]_vars

-----------------------------------------------------------------------------
(* C21: what range-limiting leaves alone.                                  *)

NoTentOn(var, axisTag) == axisTag \notin DOMAIN var.axes

PeakAtDefault(tent) == tent[2] = Zero

StraddlesZero(tent) == RLt(tent[1], Zero) /\ RLt(Zero, tent[3])

Malformed(tent) == RLt(tent[2], tent[1]) \/ RLt(tent[3], tent[2])

\* the cases of the statement, for the limited axis wght
LeftAlone(var) ==
    \/ NoTentOn(var, "wght")
    \/ PeakAtDefault(var.axes["wght"])
    \/ StraddlesZero(var.axes["wght"])
    \/ Malformed(var.axes["wght"])

\* the tents of the axes other than wght are those of the input
OtherAxesKept(out, var) ==
    /\ DOMAIN out.axes \ {"wght"} = DOMAIN var.axes \ {"wght"}
    /\ \A a \in DOMAIN var.axes \ {"wght"} : out.axes[a] = var.axes[a]

\* C21: range-limiting axis wght returns exactly the input variation, with
\* the same tents and the same deltas, when the variation has no tent on
\* wght, when its peak on wght is 0, when its tent straddles zero, or when
\* the tent is out of order; and whatever it returns, the tents of the other
\* axes are those of the input.
C21_UnaffectedTentsUnchanged ==
    tpc = "done" =>
        /\ LeftAlone(tVar) => tOut = << tVar >>
        /\ \A i \in 1..Len(tOut) : OtherAxesKept(tOut[i], tVar)

\* C21 witness: a variation without a tent on wght and with a tent on wdth
\* returned as it was by a range that restricts both sides of wght
C21_Witness ==
    /\ tpc = "done"
    /\ NoTentOn(tVar, "wght")
    /\ "wdth" \in DOMAIN tVar.axes
    /\ tRange = NormalizedAxisRange(Rat(-1, 2), Rat(1, 2))
    /\ tOut = << tVar >>

-----------------------------------------------------------------------------
(* C22: the bounds written by range-limiting and the 2.14 grid.            *)

\* r is an integer multiple of 1/16384
OnGrid(r) == (r[1] * 16384) % r[2] = 0

\* between -2 and the largest 2.14 value
WithinF2Dot14(r) == RLe(Num(-2), r) /\ RLe(r, MAX_F2DOT14)

TentOnGrid(tent) == \A k \in 1..3 : OnGrid(tent[k])

\* the tent and the range of the call are on the grid
InputsOnGrid ==
    /\ TentOnGrid(tVar.axes["wght"])
    /\ OnGrid(tRange.minimum)
    /\ OnGrid(tRange.maximum)

\* C22 as stated: for every input tent on the 2.14 grid and every normalized
\* range with ends on the grid, each of the lower, peak and upper values of
\* every tent that range-limiting emits is an integer multiple of 1/16384
\* and lies between -2 and the largest 2.14 value.
C22_EmittedBoundsOnGrid ==
    (tpc = "done" /\ InputsOnGrid) =>
        \A i \in 1..Len(tOut) : \A k \in 1..3 :
            /\ OnGrid(tOut[i].axes["wght"][k])
            /\ WithinF2Dot14(tOut[i].axes["wght"][k])

\* C22, what the code does: the tent (0, 0.25, 1) under the range (0, 0.75)
\* is emitted with peak 1/3 and upper bound 4/3, the plain quotients
C22_QuotientsEmitted ==
    /\ tpc = "done"
    /\ InputsOnGrid
    /\ tVar.axes["wght"] = << Zero, Rat(1, 4), One >>
    /\ tRange = NormalizedAxisRange(Zero, Rat(3, 4))
    /\ Len(tOut) = 1
    /\ tOut[1].axes["wght"] = << Zero, Rat(1, 3), Rat(4, 3) >>
    /\ ~OnGrid(tOut[1].axes["wght"][2])

-----------------------------------------------------------------------------
(* C23: merging of variations with coincident tents.                       *)

\* instantiateTupleVariationStore has returned at least once
StoreInstantiated == sTable # "none" /\ Len(sReturned) >= 1

\* it has returned exactly once: the input was sStore0 and sLimits0[1]
FirstRunDone == sTable # "none" /\ Len(sReturned) = 1 /\ sStore0 # <<>>

\* newVariations as the merge loop of 169-180 receives it
BeforeMerge ==
    pinnedAndLimited(sStore0, splitAxisLocationAndRanges(sLimits0[1]))

\* the variations of newVariations with the axis mapping of variation i
Coincident(i) ==
    { j \in 1..Len(BeforeMerge) : BeforeMerge[j].axes = BeforeMerge[i].axes }

\* the first variation of each axis mapping, the empty mapping left out
FirstOccurrences ==
    { i \in 1..Len(BeforeMerge) :
        /\ DOMAIN BeforeMerge[i].axes # {}
        /\ \A j \in Coincident(i) : i <= j }

RECURSIVE DeltaSum(_, _)
\* item x of the element-wise sum of the deltas of the variations js
DeltaSum(js, x) ==
    IF js = {} THEN Zero
    ELSE LET j == CHOOSE k \in js : TRUE
         IN  RAdd(BeforeMerge[j].coordinates[x], DeltaSum(js \ {j}, x))

\* the place of first occurrence i among the first occurrences
PlaceOf(i) == Cardinality({ j \in FirstOccurrences : j <= i })

NoCoincidentLeft ==
    /\ \A k, l \in 1..Len(sStore) : k # l => sStore[k].axes # sStore[l].axes
    /\ \A k \in 1..Len(sStore) : DOMAIN sStore[k].axes # {}

\* C23 as stated: after instantiateTupleVariationStore no two variations of
\* the store have the same axis-to-tent mapping and none has an empty one;
\* the variations whose mappings became identical are replaced by one
\* variation whose deltas are their element-wise sum, at the position of the
\* first of them, the survivors in order of first occurrence.
C23_MergedBySum ==
    /\ StoreInstantiated => NoCoincidentLeft
    /\ FirstRunDone =>
          /\ Len(sStore) = Cardinality(FirstOccurrences)
          /\ \A i \in FirstOccurrences :
                /\ sStore[PlaceOf(i)].axes = BeforeMerge[i].axes
                /\ Cardinality(Coincident(i)) >= 2 =>
                      \A x \in 1..NumItems :
                          sStore[PlaceOf(i)].coordinates[x]
                              = DeltaSum(Coincident(i), x)

\* C23 amended: as stated, except that the deltas of each variation of the
\* store are the element-wise sum rounded to integers, ties to even.
C23_MergedByRoundedSum ==
    /\ StoreInstantiated => NoCoincidentLeft
    /\ FirstRunDone =>
          /\ Len(sStore) = Cardinality(FirstOccurrences)
          /\ \A i \in FirstOccurrences :
                /\ sStore[PlaceOf(i)].axes = BeforeMerge[i].axes
                /\ \A x \in 1..NumItems :
                      sStore[PlaceOf(i)].coordinates[x]
                          = Num(otRound(DeltaSum(Coincident(i), x)))

\* C23 witness: two variations with different tents that pinning leaves
\* with the same tents, merged into the one variation of the store
C23_Witness ==
    /\ FirstRunDone
    /\ Len(sStore0) = 2
    /\ sStore0[1].axes # sStore0[2].axes
    /\ Len(BeforeMerge) = 2
    /\ BeforeMerge[1].axes = BeforeMerge[2].axes
    /\ Len(sStore) = 1
    /\ DOMAIN sStore[1].axes # {}

-----------------------------------------------------------------------------
(* C24: the region list after _TupleVarStoreAdapter.instantiate.           *)

\* the tuple variations of subtable m of the original store, instantiated
SurvivingOf(m) ==
    instantiateTupleVariationStore(
        varDataVariations(vStore0.Region, vStore0.VarData[m]), vLimits).variations

\* the axis maps of the surviving variations, subtable after subtable
SurvivingAxes ==
    LET all == Concat([m \in 1..Len(vStore0.VarData) |-> SurvivingOf(m)], 1)
    IN  [k \in 1..Len(all) |-> all[k].axes]

ExistedBefore(region) == InSeq(region, vStore0.Region)

\* region r stands before region s as the statement orders them
OrderedAsStated(r, s) ==
    IF ExistedBefore(s)
    THEN ExistedBefore(r) /\ IndexOf(r, vStore0.Region) < IndexOf(s, vStore0.Region)
    ELSE ExistedBefore(r) \/ IndexOf(r, SurvivingAxes) < IndexOf(s, SurvivingAxes)

\* C24: after the store is instantiated its region list holds each distinct
\* axis map of a surviving tuple variation of any subtable exactly once and
\* nothing else; the regions of the original list come first, in their
\* original order, the new regions follow in order of first use; and the
\* region index of every surviving variation resolves to its axis map.
C24_RegionListRebuilt ==
    vpc = "done" =>
        /\ { vStore.Region[k] : k \in 1..Len(vStore.Region) }
              = { SurvivingAxes[k] : k \in 1..Len(SurvivingAxes) }
        /\ \A k, l \in 1..Len(vStore.Region) :
              k < l => /\ vStore.Region[k] # vStore.Region[l]
                       /\ OrderedAsStated(vStore.Region[k], vStore.Region[l])
        /\ \A m \in 1..Len(vStore.VarData) :
              /\ Len(vStore.VarData[m].VarRegionIndex) = Len(SurvivingOf(m))
              /\ \A j \in 1..Len(SurvivingOf(m)) :
                    /\ vStore.VarData[m].VarRegionIndex[j] \in 1..Len(vStore.Region)
                    /\ vStore.Region[vStore.VarData[m].VarRegionIndex[j]]
                          = SurvivingOf(m)[j].axes

\* the regions of the new list that the original list did not have
NewRegions == { k \in 1..Len(vStore.Region) : ~ExistedBefore(vStore.Region[k]) }

\* C24 witness: a region of the original list is gone, one is kept and two
\* new regions stand after it
C24_Witness ==
    /\ vpc = "done"
    /\ \E k \in 1..Len(vStore0.Region) : ~InSeq(vStore0.Region[k], vStore.Region)
    /\ \E k \in 1..Len(vStore.Region) : ExistedBefore(vStore.Region[k])
    /\ Cardinality(NewRegions) >= 2

-----------------------------------------------------------------------------
(* SpecGvar: the loop of instantiateGvar (351-373) over the glyphs of a    *)
(* glyf table with composite glyphs.  glyf is [glyphOrder |-> the glyph    *)
(* names, components |-> glyph name -> the glyphs it uses as components    *)
(* (none for a simple glyph), coordinates |-> glyph name -> its            *)
(* coordinates, xMin |-> glyph name -> the left edge of the bounding box   *)
(* as last computed by setCoordinates].                                    *)

GlyphNames == {"a", "b", "c", "d"}

\* the glyph names in the order Python compares strings
SortedNames == << "a", "b", "c", "d" >>

NameRank(name) == IndexOf(name, SortedNames)

\* glyf[name].isComposite()
isComposite(glyf, name) == glyf.components[name] # {}

RECURSIVE compositeDepth(_, _, _)
\* Glyph.getCompositeMaxpValues(glyf, maxComponentDepth).maxComponentDepth:
\* the deepest nesting of composites below the glyph, the glyph counting 1
compositeDepth(glyf, name, depth) ==
    LET nested == { compositeDepth(glyf, c, depth + 1) :
                      c \in { c \in glyf.components[name] : isComposite(glyf, c) } }
    IN  CHOOSE d \in nested \cup {depth} : \A e \in nested \cup {depth} : e <= d

\* a plausible slip: the glyphs are sorted by name alone
sortKey_NameOnly(glyf, name) == << 0, NameRank(name) >>

\* the key of 362-367: (maxComponentDepth if composite else 0, name)
sortKey(glyf, name) ==
    << IF isComposite(glyf, name) THEN compositeDepth(glyf, name, 1) ELSE 0,
       NameRank(name) >>

\* tuple comparison of two keys
KeyLess(k, l) == k[1] < l[1] \/ (k[1] = l[1] /\ k[2] < l[2])

\* sorted(glyf.glyphOrder, key=...) (360-368)
sortedGlyphNames(glyf) ==
    LET names == { glyf.glyphOrder[k] : k \in 1..Len(glyf.glyphOrder) }
    IN  [k \in 1..Len(glyf.glyphOrder) |->
            CHOOSE g \in names :
                Cardinality({ h \in names :
                    KeyLess(sortKey(glyf, h), sortKey(glyf, g)) }) = k - 1]

RECURSIVE leftEdge(_, _)
\* Glyph.recalcBounds: the left edge of a simple glyph is its smallest
\* coordinate, that of a composite the smallest left edge of its components
\* as they are now
leftEdge(glyf, name) ==
    LET edges == IF isComposite(glyf, name)
                 THEN { leftEdge(glyf, c) : c \in glyf.components[name] }
                 ELSE { glyf.coordinates[name][i] :
                          i \in 1..Len(glyf.coordinates[name]) }
    IN  CHOOSE x \in edges : \A y \in edges : RLe(x, y)

\* glyf.setCoordinates(glyphname, coordinates, varfont) (338)
setCoordinates(glyf, glyphname, coordinates) ==
    LET written == [glyf EXCEPT !.coordinates[glyphname] = coordinates]
    IN  [written EXCEPT !.xMin[glyphname] = leftEdge(written, glyphname)]

\* 340-343 and the in-place update of the glyph's list: the entry of a glyph
\* left without variations is deleted
variationsWritten(variations, glyphname, result) ==
    [g \in { h \in DOMAIN variations :
               h = glyphname => result.variations # <<>> } |->
        IF g = glyphname THEN result.variations ELSE variations[g]]

\* instantiateGvarGlyph (311-348): the glyf table and gvar.variations afterwards
instantiateGvarGlyph(glyf, variations, glyphname, location) ==
    LET result == glyphResult(variations, glyphname, location)
    IN  [ glyf |-> setCoordinates(glyf, glyphname,
                       addDefaultDeltas(glyf.coordinates[glyphname],
                                        result.defaultDeltas)),
          variations |-> variationsWritten(variations, glyphname, result) ]

\* the glyphs reachable from name through components (at most three levels
\* with four glyphs)
ComponentsBelow(components, name) ==
    LET one == components[name]
        two == one \cup UNION { components[c] : c \in one }
        three == two \cup UNION { components[c] : c \in two }
    IN  three \cup UNION { components[c] : c \in three }

\* no glyph is its own component, directly or not
Acyclic(components) ==
    \A g \in DOMAIN components : g \notin ComponentsBelow(components, g)

GlyphOrders ==
    { << "a", "b", "c", "d" >>, << "d", "c", "b", "a" >>,
      << "b", "d", "a", "c" >>, << "c", "a", "d", "b" >> }

\* the default coordinates: two x values per simple glyph, the offset of
\* the components for a composite
GlyphCoordinates(components) ==
    [g \in GlyphNames |->
        IF components[g] # {} THEN << Zero >>
        ELSE << Num(10 * NameRank(g)), Num(10 * NameRank(g) + 5) >>]

PoolGlyfs ==
    { LET glyf == [ glyphOrder |-> order, components |-> components,
                    coordinates |-> GlyphCoordinates(components),
                    xMin |-> [g \in GlyphNames |-> Zero] ]
      IN  [glyf EXCEPT !.xMin = [g \in GlyphNames |-> leftEdge(glyf, g)]] :
        order \in GlyphOrders,
        components \in { c \in [GlyphNames -> SUBSET GlyphNames] : Acyclic(c) } }

GlyphVariation(name) ==
    TupleVariation([a \in {"wght"} |-> << Zero, One, One >>],
                   << Num(-8 * NameRank(name)), Num(6) >>)

\* gvar.variations: every simple glyph varies and the composites have no
\* entry; or every other simple glyph varies and the other glyphs have an
\* empty entry; or every entry is empty
PoolVariations(glyf) ==
    { [g \in { h \in GlyphNames : ~isComposite(glyf, h) } |-> << GlyphVariation(g) >>],
      [g \in GlyphNames |->
          IF ~isComposite(glyf, g) /\ NameRank(g) % 2 = 1
          THEN << GlyphVariation(g) >> ELSE <<>>],
      [g \in GlyphNames |-> <<>>] }

GlyphLocations ==
    { [a \in {"wght"} |-> Pin(Rat(1, 2))],
      [a \in {"wght"} |-> Range(Zero, Rat(1, 2))] }

GvarInit ==
    /\ TentIdle
    /\ StoreIdle
    /\ IvsIdle
    /\ FontIdle
    /\ PinIdle
    /\ gGlyf \in PoolGlyfs
    /\ gGvar \in PoolVariations(gGlyf)
    /\ gLocation \in GlyphLocations
    /\ gNames = <<>>
    /\ gProcessed = <<>>
    /\ gpc = "sort"

\* glyphnames = sorted(glyf.glyphOrder, key=...) (360-368)
SortGlyphNames ==
    /\ gpc = "sort"
    /\ gNames' = sortedGlyphNames(gGlyf)
    /\ gpc' = "loop"
    /\ UNCHANGED <<gGlyf, gGvar, gLocation, gProcessed,
                   tentVars, storeVars, ivsVars, fontVars, pinVars>>

\* one pass of the loop of 369-370: instantiateGvarGlyph for the next glyph
NextGlyph ==
    /\ gpc = "loop"
    /\ Len(gProcessed) < Len(gNames)
    /\ LET glyphname == gNames[Len(gProcessed) + 1]
           r == instantiateGvarGlyph(gGlyf, gGvar, glyphname, gLocation)
       IN  /\ gGlyf' = r.glyf
           /\ gGvar' = r.variations
           /\ gProcessed' = Append(gProcessed, glyphname)
    /\ UNCHANGED <<gLocation, gNames, gpc,
                   tentVars, storeVars, ivsVars, fontVars, pinVars>>

\* the loop is over; if not gvar.variations: del varfont["gvar"] (372-373)
DropGvarIfEmpty ==
    /\ gpc = "loop"
    /\ Len(gProcessed) = Len(gNames)
    /\ gpc' = IF DOMAIN gGvar = {} THEN "dropped" ELSE "done"
    /\ UNCHANGED <<gGlyf, gGvar, gLocation, gNames, gProcessed,
                   tentVars, storeVars, ivsVars, fontVars, pinVars>>

GvarNext == SortGlyphNames \/ NextGlyph \/ DropGvarIfEmpty

SpecGvar == GvarInit /\ [][GvarNext]_vars

-----------------------------------------------------------------------------
(* C25: the order in which instantiateGvar processes the glyphs.           *)

LoopOver == gpc \in {"done", "dropped"}

\* the glyphs processed before the i-th
ProcessedBefore(i) == { gProcessed[k] : k \in 1..(i - 1) }

\* C25: every glyph of the glyf table is processed exactly once, glyphs
\* without variations included, and their coordinates are written back; the
\* glyphs are processed in ascending maximum component depth (0 for a simple
\* glyph), ties broken by glyph name; and when a composite glyph is
\* processed every glyph it uses as a component, directly or through other
\* composites, has been processed, so that the bounding box written for it
\* is that of the instanced components.
C25_ComponentsFirst ==
    /\ \A i, j \in 1..Len(gProcessed) :
          i < j => /\ gProcessed[i] # gProcessed[j]
                   /\ KeyLess(<< IF isComposite(gGlyf, gProcessed[i])
                                 THEN compositeDepth(gGlyf, gProcessed[i], 1) ELSE 0,
                                 NameRank(gProcessed[i]) >>,
                              << IF isComposite(gGlyf, gProcessed[j])
                                 THEN compositeDepth(gGlyf, gProcessed[j], 1) ELSE 0,
                                 NameRank(gProcessed[j]) >>)
    /\ \A i \in 1..Len(gProcessed) :
          ComponentsBelow(gGlyf.components, gProcessed[i]) \subseteq ProcessedBefore(i)
    /\ LoopOver =>
          /\ { gProcessed[k] : k \in 1..Len(gProcessed) } = GlyphNames
          /\ \A g \in GlyphNames : gGlyf.xMin[g] = leftEdge(gGlyf, g)

\* C25 witness: the loop is over for a font in which a composite of a
\* composite comes first in the glyph order and by name; it was processed
\* last, had no variations, and its bounding box moved with its components
C25_Witness ==
    /\ LoopOver
    /\ gGlyf.glyphOrder[1] = "a"
    /\ gGlyf.components["a"] = {"b"}
    /\ gGlyf.components["b"] = {"c", "d"}
    /\ gProcessed = << "c", "d", "b", "a" >>
    /\ "a" \notin DOMAIN gGvar
    /\ gGlyf.xMin["a"] # Num(30)

-----------------------------------------------------------------------------
(* C26: the axis indices of the conditions that are kept.                  *)

\* the axis tags of fvar before the call, without the pinned ones, in order
NewAxisOrder ==
    SelectSeq(axisTagsOf(fFont0["fvar"].axes),
              LAMBDA a : a \notin PinnedAxes(fNorm))

\* the input record an output record was made from
InputOf(record) ==
    CHOOSE i \in 1..Len(InputRecords) :
        InputRecords[i].SubstitutionRecord = record.SubstitutionRecord

\* C26: for every record that is kept and every format-1 condition in it,
\* the axis index of the condition, read against the original axes minus the
\* pinned ones, designates the axis tag the condition designated before the
\* call, and that axis is not a pinned one.
C26_AxisIndexRemapped ==
    FeatureVariationsInstantiated =>
        \A k \in 1..Len(OutputRecords) :
            LET before == ConditionsLeft(InputRecords[InputOf(OutputRecords[k])])
                after == OutputRecords[k].ConditionSet
            IN  /\ Len(after) = Len(before)
                /\ \A c \in 1..Len(after) :
                      after[c].Format = 1 =>
                          /\ after[c].AxisIndex + 1 \in 1..Len(NewAxisOrder)
                          /\ NewAxisOrder[after[c].AxisIndex + 1]
                                = AxisOfCondition(before[c])
                          /\ AxisOfCondition(before[c]) \notin PinnedAxes(fNorm)

\* C26 witness: wght, the first axis, is pinned where the conditions on it
\* fail; the record on wdth is kept and its condition has moved from axis
\* index 1 to axis index 0
C26_Witness ==
    /\ FeatureVariationsInstantiated
    /\ PinnedAxes(fNorm) = {"wght"}
    /\ Len(OutputRecords) = 1
    /\ InputRecords[InputOf(OutputRecords[1])].ConditionSet[1].AxisIndex = 1
    /\ OutputRecords[1].ConditionSet[1].AxisIndex = 0

-----------------------------------------------------------------------------
(* C27: no pinned axis is left in the variation data.                      *)

\* the axes pinned by the runs of instantiateTupleVariationStore so far
PinnedSoFar ==
    UNION { PinnedAxes(sLimits0[k]) : k \in 1..Len(sReturned) }

\* C27: after instantiateTupleVariationStore no tuple variation of the store
\* has a tent on a pinned axis; after instantiateItemVariationStore no
\* surviving tuple variation of any subtable, no region of the rebuilt
\* region list and no entry of the store's axis order mentions a pinned
\* axis.
C27_NoPinnedAxisLeft ==
    /\ StoreInstantiated =>
          \A i \in 1..Len(sStore) : DOMAIN sStore[i].axes \cap PinnedSoFar = {}
    /\ vpc = "done" =>
          /\ \A m \in 1..Len(vStore0.VarData) :
                \A j \in 1..Len(SurvivingOf(m)) :
                    DOMAIN SurvivingOf(m)[j].axes \cap PinnedAxes(vLimits) = {}
          /\ \A k \in 1..Len(vStore.Region) :
                DOMAIN vStore.Region[k] \cap PinnedAxes(vLimits) = {}
          /\ \A k \in 1..Len(vStore.axisOrder) :
                vStore.axisOrder[k] \notin PinnedAxes(vLimits)

\* C27 witness: wdth is pinned where a region on wdth and wght, used by a
\* subtable, has influence: the region list still has regions, all on wght
\* alone, and the axis order is wght
C27_Witness ==
    /\ vpc = "done"
    /\ PinnedAxes(vLimits) = {"wdth"}
    /\ DOMAIN vLimits = {"wdth"}
    /\ \E m \in 1..Len(vStore0.VarData) :
          \E j \in 1..Len(vStore0.VarData[m].VarRegionIndex) :
              /\ vStore0.VarData[m].VarRegionIndex[j] = 4
              /\ pinScalar(TupleVariation(vStore0.Region[4], <<>>),
                           splitAxisLocationAndRanges(vLimits).location) # Zero
    /\ vStore.Region # <<>>
    /\ vStore.axisOrder = << "wght" >>

-----------------------------------------------------------------------------
(* C28: the range written to fvar and the original range of the axis.      *)

\* the run has ended without an exception
RunAccepted == fpc = "done" /\ fErr = "none"

\* the axis record of the tag in an axis list
AxisRecord(axes, axisTag) ==
    axes[CHOOSE k \in 1..Len(axes) : axes[k].axisTag = axisTag]

\* C28 as stated: for every range (lo, hi) of a run that ended without an
\* exception, the axis record written to fvar satisfies
\* originalMin <= newMin <= default <= newMax <= originalMax, the default
\* being the original one.
C28_NewRangeInsideOriginal ==
    RunAccepted =>
        \A a \in RangedByCaller :
            /\ "fvar" \in DOMAIN fHeap[fCur]
            /\ \E k \in 1..Len(fHeap[fCur]["fvar"].axes) :
                  fHeap[fCur]["fvar"].axes[k].axisTag = a
            /\ LET before == AxisRecord(fFont0["fvar"].axes, a)
                   after == AxisRecord(fHeap[fCur]["fvar"].axes, a)
               IN  /\ after.defaultValue = before.defaultValue
                   /\ RLe(before.minValue, after.minValue)
                   /\ RLe(after.minValue, after.defaultValue)
                   /\ RLe(after.defaultValue, after.maxValue)
                   /\ RLe(after.maxValue, before.maxValue)

\* C28, what the code does: the range (300, 900) on wght, whose original
\* range is 400..800, is accepted (it normalizes to (0, 1)) and written to
\* fvar as it was given
C28_RangeBeyondOriginal ==
    /\ RunAccepted
    /\ RangedByCaller = {"wght"}
    /\ fLimits["wght"].minimum = Num(300)
    /\ fLimits["wght"].maximum = Num(900)
    /\ fNorm["wght"].minimum = Zero
    /\ fNorm["wght"].maximum = One
    /\ AxisRecord(fFont0["fvar"].axes, "wght").minValue = Num(400)
    /\ AxisRecord(fFont0["fvar"].axes, "wght").maxValue = Num(800)
    /\ AxisRecord(fHeap[fCur]["fvar"].axes, "wght").minValue = Num(300)
    /\ AxisRecord(fHeap[fCur]["fvar"].axes, "wght").maxValue = Num(900)

====
